---- MODULE Spec2Model ----
(***************************************************************************)
(* Runtime Capabilities Analysis (qsc_rca): the capability and value       *)
(* lattice, application generator sets and their specialization, the       *)
(* runtime feature flags and their capability buckets, and the             *)
(* compute-properties store with whole-store and single-package analysis.  *)
(***************************************************************************)
EXTENDS Integers, Sequences, FiniteSets, TLC

VARIABLES
    generator_set,      \* the ApplicationGeneratorSet a call application is derived from
    args_value_kinds,   \* the argument value kinds of the last call, or <<>>
    application,        \* outcome of the last generate_application_compute_kind call
    features,           \* a RuntimeFeatureFlags value
    flags_call,         \* outcome of the last RuntimeFeatureFlags method call
    fir_store,          \* the lowered package store the analyzer reads
    compute_properties, \* CompilationContext::compute_properties
    analyzer,           \* the running Analyzer: its pass, packages, work list and stack
    history,            \* what compute_properties held when the last analysis started
    operands,           \* the compute kinds and value kinds a lattice operation is applied to
    lattice_call,       \* outcome of the last ComputeKind or ValueKind method call
    store_properties,   \* a PackageStoreComputeProperties written and read entry by entry
    inserted,           \* the value last inserted at each ID since its package was cleared
    store_call,         \* outcome of the last lookup in, or clear of, store_properties
    core                \* the core analyzer's walk over the statements of one block

gen_vars == <<generator_set, args_value_kinds, application>>
flag_vars == <<features, flags_call>>
rca_vars == <<fir_store, compute_properties, analyzer, history>>
lattice_vars == <<operands, lattice_call>>
store_vars == <<store_properties, inserted, store_call>>
core_vars == <<core>>
vars == <<generator_set, args_value_kinds, application, features, flags_call,
          fir_store, compute_properties, analyzer, history,
          operands, lattice_call, store_properties, inserted, store_call, core>>

(***************************************************************************)
(* Bounds of the model.                                                    *)
(***************************************************************************)
\* Largest number of parameters of a generator set, and of arguments of a call.
MaxParams == 2
\* Largest number of feature bits set in an explored RuntimeFeatureFlags value.
MaxFeatures == 2

(***************************************************************************)
(* RuntimeFeatureFlags: each flag is identified by its bit position.       *)
(***************************************************************************)
UseOfDynamicBool == 0
UseOfDynamicInt == 1
UseOfDynamicPauli == 2
UseOfDynamicRange == 3
UseOfDynamicDouble == 4
UseOfDynamicQubit == 5
UseOfDynamicBigInt == 6
UseOfDynamicString == 7
UseOfDynamicallySizedArray == 8
UseOfDynamicUdt == 9
UseOfDynamicArrowFunction == 10
UseOfDynamicArrowOperation == 11
CallToCyclicFunctionWithDynamicArg == 12
CyclicOperationSpec == 13
CallToCyclicOperation == 14
CallToDynamicCallee == 15
CallToUnresolvedCallee == 16
ForwardBranchingOnDynamicValue == 17
DynamicQubitAllocation == 18
DynamicResultAllocation == 19
UseOfDynamicIndex == 20
ReturnWithinDynamicScope == 21
LoopWithDynamicCondition == 22
UseOfClosure == 23

\* Every flag the bitflags! block defines; a flags value is a subset of it.
RuntimeFeatureFlags ==
    { UseOfDynamicBool, UseOfDynamicInt, UseOfDynamicPauli, UseOfDynamicRange,
      UseOfDynamicDouble, UseOfDynamicQubit, UseOfDynamicBigInt, UseOfDynamicString,
      UseOfDynamicallySizedArray, UseOfDynamicUdt, UseOfDynamicArrowFunction,
      UseOfDynamicArrowOperation, CallToCyclicFunctionWithDynamicArg,
      CyclicOperationSpec, CallToCyclicOperation, CallToDynamicCallee,
      CallToUnresolvedCallee, ForwardBranchingOnDynamicValue, DynamicQubitAllocation,
      DynamicResultAllocation, UseOfDynamicIndex, ReturnWithinDynamicScope,
      LoopWithDynamicCondition, UseOfClosure }

\* The flags of qsc_frontend's RuntimeCapabilityFlags that runtime_capabilities uses.
RuntimeCapabilityFlags ==
    { "ForwardBranching", "IntegerComputations", "FloatingPointComputations",
      "BackwardsBranching", "HigherLevelConstructs" }

\* `if self.contains(flag) { runtume_capabilities |= capability; }`
CapabilityIf(self, flag, capability) == IF flag \in self THEN {capability} ELSE {}

\* runtime_capabilities with the UseOfClosure branch left out.
runtime_capabilities_without_closure(self) ==
    UNION { CapabilityIf(self, UseOfDynamicBool, "ForwardBranching"),
            CapabilityIf(self, UseOfDynamicInt, "IntegerComputations"),
            CapabilityIf(self, UseOfDynamicPauli, "IntegerComputations"),
            CapabilityIf(self, UseOfDynamicRange, "IntegerComputations"),
            CapabilityIf(self, UseOfDynamicDouble, "FloatingPointComputations"),
            CapabilityIf(self, UseOfDynamicQubit, "HigherLevelConstructs"),
            CapabilityIf(self, UseOfDynamicBigInt, "HigherLevelConstructs"),
            CapabilityIf(self, UseOfDynamicString, "HigherLevelConstructs"),
            CapabilityIf(self, UseOfDynamicallySizedArray, "HigherLevelConstructs"),
            CapabilityIf(self, UseOfDynamicUdt, "HigherLevelConstructs"),
            CapabilityIf(self, UseOfDynamicArrowFunction, "HigherLevelConstructs"),
            CapabilityIf(self, UseOfDynamicArrowOperation, "HigherLevelConstructs"),
            CapabilityIf(self, CallToCyclicFunctionWithDynamicArg, "HigherLevelConstructs"),
            CapabilityIf(self, CyclicOperationSpec, "HigherLevelConstructs"),
            CapabilityIf(self, CallToCyclicOperation, "HigherLevelConstructs"),
            CapabilityIf(self, CallToDynamicCallee, "HigherLevelConstructs"),
            CapabilityIf(self, CallToUnresolvedCallee, "HigherLevelConstructs"),
            CapabilityIf(self, ForwardBranchingOnDynamicValue, "ForwardBranching"),
            CapabilityIf(self, DynamicQubitAllocation, "HigherLevelConstructs"),
            CapabilityIf(self, DynamicResultAllocation, "HigherLevelConstructs"),
            CapabilityIf(self, UseOfDynamicIndex, "HigherLevelConstructs"),
            CapabilityIf(self, ReturnWithinDynamicScope, "ForwardBranching"),
            CapabilityIf(self, LoopWithDynamicCondition, "BackwardsBranching") }

\* runtime_capabilities with the ReturnWithinDynamicScope and LoopWithDynamicCondition
\* buckets exchanged.
runtime_capabilities_swapped_branching(self) ==
    UNION { CapabilityIf(self, UseOfDynamicBool, "ForwardBranching"),
            CapabilityIf(self, UseOfDynamicInt, "IntegerComputations"),
            CapabilityIf(self, UseOfDynamicPauli, "IntegerComputations"),
            CapabilityIf(self, UseOfDynamicRange, "IntegerComputations"),
            CapabilityIf(self, UseOfDynamicDouble, "FloatingPointComputations"),
            CapabilityIf(self, UseOfDynamicQubit, "HigherLevelConstructs"),
            CapabilityIf(self, UseOfDynamicBigInt, "HigherLevelConstructs"),
            CapabilityIf(self, UseOfDynamicString, "HigherLevelConstructs"),
            CapabilityIf(self, UseOfDynamicallySizedArray, "HigherLevelConstructs"),
            CapabilityIf(self, UseOfDynamicUdt, "HigherLevelConstructs"),
            CapabilityIf(self, UseOfDynamicArrowFunction, "HigherLevelConstructs"),
            CapabilityIf(self, UseOfDynamicArrowOperation, "HigherLevelConstructs"),
            CapabilityIf(self, CallToCyclicFunctionWithDynamicArg, "HigherLevelConstructs"),
            CapabilityIf(self, CyclicOperationSpec, "HigherLevelConstructs"),
            CapabilityIf(self, CallToCyclicOperation, "HigherLevelConstructs"),
            CapabilityIf(self, CallToDynamicCallee, "HigherLevelConstructs"),
            CapabilityIf(self, CallToUnresolvedCallee, "HigherLevelConstructs"),
            CapabilityIf(self, ForwardBranchingOnDynamicValue, "ForwardBranching"),
            CapabilityIf(self, DynamicQubitAllocation, "HigherLevelConstructs"),
            CapabilityIf(self, DynamicResultAllocation, "HigherLevelConstructs"),
            CapabilityIf(self, UseOfDynamicIndex, "HigherLevelConstructs"),
            CapabilityIf(self, ReturnWithinDynamicScope, "BackwardsBranching"),
            CapabilityIf(self, LoopWithDynamicCondition, "ForwardBranching"),
            CapabilityIf(self, UseOfClosure, "HigherLevelConstructs") }

\* RuntimeFeatureFlags::runtime_capabilities: one `if self.contains(..)` per flag,
\* each OR-ing its capability into the result.
runtime_capabilities(self) ==
    UNION { CapabilityIf(self, UseOfDynamicBool, "ForwardBranching"),
            CapabilityIf(self, UseOfDynamicInt, "IntegerComputations"),
            CapabilityIf(self, UseOfDynamicPauli, "IntegerComputations"),
            CapabilityIf(self, UseOfDynamicRange, "IntegerComputations"),
            CapabilityIf(self, UseOfDynamicDouble, "FloatingPointComputations"),
            CapabilityIf(self, UseOfDynamicQubit, "HigherLevelConstructs"),
            CapabilityIf(self, UseOfDynamicBigInt, "HigherLevelConstructs"),
            CapabilityIf(self, UseOfDynamicString, "HigherLevelConstructs"),
            CapabilityIf(self, UseOfDynamicallySizedArray, "HigherLevelConstructs"),
            CapabilityIf(self, UseOfDynamicUdt, "HigherLevelConstructs"),
            CapabilityIf(self, UseOfDynamicArrowFunction, "HigherLevelConstructs"),
            CapabilityIf(self, UseOfDynamicArrowOperation, "HigherLevelConstructs"),
            CapabilityIf(self, CallToCyclicFunctionWithDynamicArg, "HigherLevelConstructs"),
            CapabilityIf(self, CyclicOperationSpec, "HigherLevelConstructs"),
            CapabilityIf(self, CallToCyclicOperation, "HigherLevelConstructs"),
            CapabilityIf(self, CallToDynamicCallee, "HigherLevelConstructs"),
            CapabilityIf(self, CallToUnresolvedCallee, "HigherLevelConstructs"),
            CapabilityIf(self, ForwardBranchingOnDynamicValue, "ForwardBranching"),
            CapabilityIf(self, DynamicQubitAllocation, "HigherLevelConstructs"),
            CapabilityIf(self, DynamicResultAllocation, "HigherLevelConstructs"),
            CapabilityIf(self, UseOfDynamicIndex, "HigherLevelConstructs"),
            CapabilityIf(self, ReturnWithinDynamicScope, "ForwardBranching"),
            CapabilityIf(self, LoopWithDynamicCondition, "BackwardsBranching"),
            CapabilityIf(self, UseOfClosure, "HigherLevelConstructs") }

\* contributing_features without the test of each feature's capabilities.
contributing_features_untested(self, caps) ==
    { feature \in self : caps # {} }

\* RuntimeFeatureFlags::contributing_features: the flags of self whose own
\* capabilities intersect the given ones.
contributing_features(self, caps) ==
    { feature \in self : runtime_capabilities({feature}) \cap caps # {} }

(***************************************************************************)
(* RuntimeKind, ValueKind, ComputeKind.                                    *)
(***************************************************************************)
Static == "Static"
Dynamic == "Dynamic"
RuntimeKind == {Static, Dynamic}

Element(runtime_kind) == [variant |-> "Element", runtime_kind |-> runtime_kind]
Array(content_runtime_kind, size_runtime_kind) ==
    [variant |-> "Array", content |-> content_runtime_kind, size |-> size_runtime_kind]
ValueKind ==
    { Element(k) : k \in RuntimeKind } \cup
    { Array(c, s) : c \in RuntimeKind, s \in RuntimeKind }
IsElement(value_kind) == value_kind.variant = "Element"
IsArray(value_kind) == value_kind.variant = "Array"

\* An abort of the process (panic!, a failed assert! or expect), with its message.
Panic(message) == [kind |-> "Panic", message |-> message]
IsPanic(x) == "kind" \in DOMAIN x /\ x.kind = "Panic"

Classical == [kind |-> "Classical"]

\* Quantum that falls back to Classical when it is given no runtime feature.
Quantum_with_features(runtime_features, value_kind) ==
    IF runtime_features = {}
    THEN [kind |-> "Classical"]
    ELSE [kind |-> "Quantum", runtime_features |-> runtime_features,
          value_kind |-> value_kind]

\* ComputeKind::Quantum(QuantumProperties { runtime_features, value_kind })
Quantum(runtime_features, value_kind) ==
    [kind |-> "Quantum", runtime_features |-> runtime_features, value_kind |-> value_kind]
IsClassical(compute_kind) == compute_kind.kind = "Classical"
IsQuantum(compute_kind) == compute_kind.kind = "Quantum"

\* RuntimeKind::aggregate that returns its argument.
RuntimeKind_aggregate_takes_value(self, value) == value

\* RuntimeKind::aggregate
RuntimeKind_aggregate(self, value) ==
    IF value = Static THEN self ELSE Dynamic

\* ValueKind::aggregate that returns self when the variants differ.
ValueKind_aggregate_lenient(self, value) ==
    IF IsArray(self)
    THEN IF IsArray(value)
         THEN Array(RuntimeKind_aggregate(self.content, value.content),
                    RuntimeKind_aggregate(self.size, value.size))
         ELSE self
    ELSE IF IsElement(value)
         THEN Element(RuntimeKind_aggregate(self.runtime_kind, value.runtime_kind))
         ELSE self

\* ValueKind::aggregate; aborts when the variants differ.
ValueKind_aggregate(self, value) ==
    IF IsArray(self)
    THEN IF IsArray(value)
         THEN Array(RuntimeKind_aggregate(self.content, value.content),
                    RuntimeKind_aggregate(self.size, value.size))
         ELSE Panic("only value kinds of the same variant can be aggregated")
    ELSE IF IsElement(value)
         THEN Element(RuntimeKind_aggregate(self.runtime_kind, value.runtime_kind))
         ELSE Panic("only value kinds of the same variant can be aggregated")

\* is_dynamic that looks at the content of an array alone.
is_dynamic_content_only(self) ==
    IF IsArray(self)
    THEN self.content = Dynamic
    ELSE self.runtime_kind = Dynamic

\* ValueKind::is_dynamic
is_dynamic(self) ==
    IF IsArray(self)
    THEN self.content = Dynamic \/ self.size = Dynamic
    ELSE self.runtime_kind = Dynamic

\* project_onto_variant that leaves the size of an Array target as it was when
\* the source is an Element.
project_onto_variant_keeps_size(self, variant) ==
    IF IsArray(variant)
    THEN IF IsArray(self)
         THEN Array(self.content, self.size)
         ELSE Array(self.runtime_kind, variant.size)
    ELSE Element(IF is_dynamic(self) THEN Dynamic ELSE Static)

\* project_onto_variant that writes an Array source's size to the target's
\* content and its content to the target's size.
project_onto_variant_crossed(self, variant) ==
    IF IsArray(variant)
    THEN IF IsArray(self)
         THEN Array(self.size, self.content)
         ELSE Array(self.runtime_kind, self.runtime_kind)
    ELSE Element(IF is_dynamic(self) THEN Dynamic ELSE Static)

\* project_onto_variant with the test of the Element arm inverted.
project_onto_variant_inverted(self, variant) ==
    IF IsArray(variant)
    THEN IF IsArray(self)
         THEN Array(self.content, self.size)
         ELSE Array(self.runtime_kind, self.runtime_kind)
    ELSE Element(IF is_dynamic(self) THEN Static ELSE Dynamic)

\* ValueKind::project_onto_variant: the value *variant holds when it returns.
project_onto_variant(self, variant) ==
    IF IsArray(variant)
    THEN IF IsArray(self)
         THEN Array(self.content, self.size)
         ELSE Array(self.runtime_kind, self.runtime_kind)
    ELSE Element(IF is_dynamic(self) THEN Dynamic ELSE Static)

\* ComputeKind::aggregate that keeps a Quantum self as it is.
ComputeKind_aggregate_keeps_self(self, value) ==
    IF IsPanic(self) THEN self
    ELSE IF IsPanic(value) THEN value
    ELSE IF ~IsQuantum(value) THEN self
    ELSE IF IsClassical(self) THEN value
    ELSE IF IsPanic(ValueKind_aggregate(self.value_kind, value.value_kind))
         THEN ValueKind_aggregate(self.value_kind, value.value_kind)
         ELSE self

\* ComputeKind::aggregate that makes *self Quantum whatever the value is.
ComputeKind_aggregate_to_quantum(self, value) ==
    IF IsPanic(self) THEN self
    ELSE IF IsPanic(value) THEN value
    ELSE LET runtime_features ==
                 (IF IsQuantum(self) THEN self.runtime_features ELSE {}) \cup
                 (IF IsQuantum(value) THEN value.runtime_features ELSE {})
             value_kind ==
                 IF IsClassical(self) /\ IsClassical(value) THEN Element(Static)
                 ELSE IF IsClassical(self) THEN value.value_kind
                 ELSE IF IsClassical(value) THEN self.value_kind
                 ELSE ValueKind_aggregate(self.value_kind, value.value_kind)
         IN IF IsPanic(value_kind) THEN value_kind
            ELSE Quantum(runtime_features, value_kind)

\* ComputeKind::aggregate that takes the runtime features of its argument alone.
ComputeKind_aggregate_value_features(self, value) ==
    IF IsPanic(self) THEN self
    ELSE IF IsPanic(value) THEN value
    ELSE IF ~IsQuantum(value) THEN self
    ELSE LET value_kind ==
                 IF IsClassical(self) THEN value.value_kind
                 ELSE ValueKind_aggregate(self.value_kind, value.value_kind)
         IN IF IsPanic(value_kind) THEN value_kind
            ELSE Quantum(value.runtime_features, value_kind)

\* ComputeKind::aggregate. An operand that is an abort stays an abort: the
\* process never got to this call.
ComputeKind_aggregate(self, value) ==
    IF IsPanic(self) THEN self
    ELSE IF IsPanic(value) THEN value
    ELSE IF ~IsQuantum(value) THEN self
    ELSE LET runtime_features ==
                 IF IsClassical(self) THEN value.runtime_features
                 ELSE self.runtime_features \cup value.runtime_features
             value_kind ==
                 IF IsClassical(self) THEN value.value_kind
                 ELSE ValueKind_aggregate(self.value_kind, value.value_kind)
         IN IF IsPanic(value_kind) THEN value_kind
            ELSE Quantum(runtime_features, value_kind)

\* aggregate_runtime_features that takes the value kind of its argument.
aggregate_runtime_features_value_kind(self, value, default_value_kind) ==
    IF ~IsQuantum(value) THEN self
    ELSE Quantum(IF IsClassical(self) THEN value.runtime_features
                 ELSE self.runtime_features \cup value.runtime_features,
                 value.value_kind)

\* ComputeKind::aggregate_runtime_features
aggregate_runtime_features(self, value, default_value_kind) ==
    IF ~IsQuantum(value) THEN self
    ELSE Quantum(IF IsClassical(self) THEN value.runtime_features
                 ELSE self.runtime_features \cup value.runtime_features,
                 IF IsClassical(self) THEN default_value_kind
                 ELSE self.value_kind)

\* ComputeKind::aggregate_value_kind: the value *self holds when it returns;
\* aborts when self is not Quantum.
aggregate_value_kind(self, value) ==
    IF ~IsQuantum(self)
    THEN Panic("a value kind can only be aggregated to a compute kind of the quantum variant")
    ELSE IF IsPanic(ValueKind_aggregate(self.value_kind, value))
         THEN ValueKind_aggregate(self.value_kind, value)
         ELSE Quantum(self.runtime_features, ValueKind_aggregate(self.value_kind, value))

(***************************************************************************)
(* ApplicationGeneratorSet and its specialization to a call application.   *)
(***************************************************************************)
ParamApplication_Element(compute_kind) ==
    [variant |-> "Element", compute_kind |-> compute_kind]
ParamApplication_Array(scds, dcss, dcds) ==
    [variant |-> "Array",
     static_content_dynamic_size |-> scds,
     dynamic_content_static_size |-> dcss,
     dynamic_content_dynamic_size |-> dcds]

ApplicationGeneratorSet(inherent, dynamic_param_applications) ==
    [inherent |-> inherent, dynamic_param_applications |-> dynamic_param_applications]

\* The argument's value kind taken as it is, without the projection.
mapped_value_kind_unprojected(arg_value_kind, param_application) == arg_value_kind

\* `let mapped_value_kind = match param_application { .. }`: the argument's value
\* kind projected onto an all-static value kind of the parameter's variant.
mapped_value_kind(arg_value_kind, param_application) ==
    IF param_application.variant = "Array"
    THEN project_onto_variant(arg_value_kind, Array(Static, Static))
    ELSE project_onto_variant(arg_value_kind, Element(Static))

\* `let param_compute_kind = match (content_runtime_value, size_runtime_value)`
\* with the two dynamic-in-one-slot arms exchanged.
array_param_compute_kind_swapped(array_param_application, mapped) ==
    IF mapped.content = Static /\ mapped.size = Static THEN Classical
    ELSE IF mapped.content = Dynamic /\ mapped.size = Static
         THEN array_param_application.static_content_dynamic_size
    ELSE IF mapped.content = Static /\ mapped.size = Dynamic
         THEN array_param_application.dynamic_content_static_size
    ELSE array_param_application.dynamic_content_dynamic_size

\* The same match with the all-static arm yielding the all-dynamic delta.
array_param_compute_kind_no_static_arm(array_param_application, mapped) ==
    IF mapped.content = Dynamic /\ mapped.size = Static
    THEN array_param_application.dynamic_content_static_size
    ELSE IF mapped.content = Static /\ mapped.size = Dynamic
         THEN array_param_application.static_content_dynamic_size
    ELSE array_param_application.dynamic_content_dynamic_size

\* `let param_compute_kind = match (content_runtime_value, size_runtime_value)`
array_param_compute_kind(array_param_application, mapped) ==
    IF mapped.content = Static /\ mapped.size = Static THEN Classical
    ELSE IF mapped.content = Dynamic /\ mapped.size = Static
         THEN array_param_application.dynamic_content_static_size
    ELSE IF mapped.content = Static /\ mapped.size = Dynamic
         THEN array_param_application.static_content_dynamic_size
    ELSE array_param_application.dynamic_content_dynamic_size

\* An iteration that assigns the selected delta to compute_kind instead of
\* aggregating it.
application_step_assigns(acc, arg_value_kind, param_application) ==
    LET mapped == mapped_value_kind(arg_value_kind, param_application)
    IN  IF mapped = Element(Dynamic)
        THEN [compute_kind |-> param_application.compute_kind,
              aggregations |-> acc.aggregations + 1]
        ELSE IF IsArray(mapped)
        THEN [compute_kind |-> array_param_compute_kind(param_application, mapped),
              aggregations |-> acc.aggregations + 1]
        ELSE acc

\* One iteration of the loop over the zipped arguments and parameter applications:
\* the new compute_kind and the number of ComputeKind::aggregate calls made so far.
application_step(acc, arg_value_kind, param_application) ==
    LET mapped == mapped_value_kind(arg_value_kind, param_application)
    IN  IF mapped = Element(Dynamic)
        THEN IF param_application.variant # "Element"
             THEN [compute_kind |->
                       Panic("parameter application was expected to be an element variant"),
                   aggregations |-> acc.aggregations]
             ELSE [compute_kind |->
                       ComputeKind_aggregate(acc.compute_kind, param_application.compute_kind),
                   aggregations |-> acc.aggregations + 1]
        ELSE IF IsArray(mapped)
        THEN IF param_application.variant # "Array"
             THEN [compute_kind |->
                       Panic("parameter application was expected to be an array variant"),
                   aggregations |-> acc.aggregations]
             ELSE [compute_kind |->
                       ComputeKind_aggregate(acc.compute_kind,
                           array_param_compute_kind(param_application, mapped)),
                   aggregations |-> acc.aggregations + 1]
        ELSE acc

\* The loop from pair i on; zip stops at the shorter of the two sequences, and an
\* abort ends the loop.
RECURSIVE application_loop(_, _, _, _)
application_loop(self, args, i, acc) ==
    IF i > Len(args) \/ i > Len(self.dynamic_param_applications) \/ IsPanic(acc.compute_kind)
    THEN acc
    ELSE application_loop(self, args, i + 1,
             application_step(acc, args[i], self.dynamic_param_applications[i]))

\* generate_application_compute_kind without its leading assert!.
generate_application_unchecked(self, args) ==
    application_loop(self, args, 1, [compute_kind |-> self.inherent, aggregations |-> 0])

\* ApplicationGeneratorSet::generate_application_compute_kind, with the number of
\* aggregate calls it made.
generate_application(self, args) ==
    IF Len(self.dynamic_param_applications) # Len(args)
    THEN [compute_kind |->
              Panic("assertion failed: self.dynamic_param_applications.len() == args_value_kinds.len()"),
          aggregations |-> 0]
    ELSE application_loop(self, args, 1, [compute_kind |-> self.inherent, aggregations |-> 0])

\* The value generate_application_compute_kind returns, or the abort.
generate_application_compute_kind(self, args) == generate_application(self, args).compute_kind

(***************************************************************************)
(* Inputs of the specialization: generator sets and argument vectors.      *)
(***************************************************************************)
\* Compute kinds used as inherent kinds and as Element deltas.
SampleComputeKinds ==
    { Classical,
      Quantum({UseOfDynamicBool}, Element(Dynamic)),
      Quantum({UseOfDynamicallySizedArray}, Array(Static, Dynamic)) }
\* Compute kinds used as the three deltas of an Array parameter.
SampleArrayDeltas ==
    { Classical, Quantum({UseOfDynamicInt}, Element(Static)) }

ParamApplications ==
    { ParamApplication_Element(ck) : ck \in SampleComputeKinds } \cup
    { ParamApplication_Array(x, y, z) :
          x \in SampleArrayDeltas, y \in SampleArrayDeltas, z \in SampleArrayDeltas }

SeqsUpTo(S, n) == UNION { [1..k -> S] : k \in 0..n }

NoApplication == [called |-> FALSE, compute_kind |-> Classical, aggregations |-> 0]

(***************************************************************************)
(* The compute-properties store (output of the analysis).                  *)
(***************************************************************************)
None == [kind |-> "None"]
Some(value) == [kind |-> "Some", value |-> value]

\* IndexMap: a finite map keyed by an ID.
IndexMap_new == <<>>
IndexMap_get(map, key) == IF key \in DOMAIN map THEN Some(map[key]) ELSE None
\* An insert that leaves the value of a key already present.
IndexMap_insert_keeps_first(map, key, value) ==
    [k \in (DOMAIN map) \cup {key} |-> IF k \in DOMAIN map THEN map[k] ELSE value]
IndexMap_insert(map, key, value) ==
    [k \in (DOMAIN map) \cup {key} |-> IF k = key THEN value ELSE map[k]]

StoreItemId(package, item) == [package |-> package, item |-> item]

\* PackageComputeProperties::default
PackageComputeProperties_default ==
    [items |-> IndexMap_new, blocks |-> IndexMap_new,
     stmts |-> IndexMap_new, exprs |-> IndexMap_new]

\* PackageComputeProperties::clear that leaves the items map as it is.
PackageComputeProperties_clear_keeps_items(self) ==
    [items |-> self.items, blocks |-> IndexMap_new,
     stmts |-> IndexMap_new, exprs |-> IndexMap_new]

\* PackageComputeProperties::clear
PackageComputeProperties_clear(self) ==
    [items |-> IndexMap_new, blocks |-> IndexMap_new,
     stmts |-> IndexMap_new, exprs |-> IndexMap_new]

\* The tuple struct PackageStoreComputeProperties(IndexMap<PackageId, ..>).
PackageStoreComputeProperties(packages) ==
    [kind |-> "PackageStoreComputeProperties", packages |-> packages]

\* A get that takes a package without an entry for an empty one.
PackageStoreComputeProperties_get_or_default(self, id) ==
    IF id \in DOMAIN self.packages
    THEN self.packages[id]
    ELSE PackageComputeProperties_default

\* PackageStoreComputeProperties::get (and get_mut, which reads the same entry).
PackageStoreComputeProperties_get(self, id) ==
    IF id \in DOMAIN self.packages
    THEN self.packages[id]
    ELSE Panic("package should exist")

\* ItemComputeProperties::Callable(CallableComputeProperties { body, adj, ctl, ctl_adj })
Callable(body, adj, ctl, ctl_adj) ==
    [kind |-> "Callable", body |-> body, adj |-> adj, ctl |-> ctl, ctl_adj |-> ctl_adj]
NonCallable == [kind |-> "NonCallable"]

find_block(self, id) ==
    LET package == PackageStoreComputeProperties_get(self, id.package)
    IN  IF IsPanic(package) THEN package ELSE IndexMap_get(package.blocks, id.item)
find_expr(self, id) ==
    LET package == PackageStoreComputeProperties_get(self, id.package)
    IN  IF IsPanic(package) THEN package ELSE IndexMap_get(package.exprs, id.item)
find_item(self, id) ==
    LET package == PackageStoreComputeProperties_get(self, id.package)
    IN  IF IsPanic(package) THEN package ELSE IndexMap_get(package.items, id.item)
find_stmt(self, id) ==
    LET package == PackageStoreComputeProperties_get(self, id.package)
    IN  IF IsPanic(package) THEN package ELSE IndexMap_get(package.stmts, id.item)

\* The get_* methods: the value find_* returns, or an abort when there is none.
expect(option, message) ==
    IF IsPanic(option) THEN option
    ELSE IF option = None THEN Panic(message)
    ELSE option.value
get_block(self, id) == expect(find_block(self, id), "block compute properties not found")
get_expr(self, id) == expect(find_expr(self, id), "expression compute properties not found")
get_item(self, id) == expect(find_item(self, id), "item compute properties not found")
get_stmt(self, id) == expect(find_stmt(self, id), "statement compute properties not found")

insert_block(self, id, value) ==
    IF IsPanic(PackageStoreComputeProperties_get(self, id.package))
    THEN PackageStoreComputeProperties_get(self, id.package)
    ELSE [self EXCEPT !.packages[id.package].blocks = IndexMap_insert(@, id.item, value)]
\* insert_expr that writes the value to the statement of the same number too.
insert_expr_and_stmt(self, id, value) ==
    IF IsPanic(PackageStoreComputeProperties_get(self, id.package))
    THEN PackageStoreComputeProperties_get(self, id.package)
    ELSE [self EXCEPT !.packages[id.package].exprs = IndexMap_insert(@, id.item, value),
                      !.packages[id.package].stmts = IndexMap_insert(@, id.item, value)]
insert_expr(self, id, value) ==
    IF IsPanic(PackageStoreComputeProperties_get(self, id.package))
    THEN PackageStoreComputeProperties_get(self, id.package)
    ELSE [self EXCEPT !.packages[id.package].exprs = IndexMap_insert(@, id.item, value)]
\* insert_item that writes to every package of the store.
insert_item_every_package(self, id, value) ==
    IF IsPanic(PackageStoreComputeProperties_get(self, id.package))
    THEN PackageStoreComputeProperties_get(self, id.package)
    ELSE [self EXCEPT !.packages =
              [p \in DOMAIN @ |-> [@[p] EXCEPT !.items = IndexMap_insert(@, id.item, value)]]]
insert_item(self, id, value) ==
    IF IsPanic(PackageStoreComputeProperties_get(self, id.package))
    THEN PackageStoreComputeProperties_get(self, id.package)
    ELSE [self EXCEPT !.packages[id.package].items = IndexMap_insert(@, id.item, value)]
insert_stmt(self, id, value) ==
    IF IsPanic(PackageStoreComputeProperties_get(self, id.package))
    THEN PackageStoreComputeProperties_get(self, id.package)
    ELSE [self EXCEPT !.packages[id.package].stmts = IndexMap_insert(@, id.item, value)]

\* A clear that empties every package of the store.
clear_package_every_package(self, id) ==
    IF IsPanic(PackageStoreComputeProperties_get(self, id))
    THEN PackageStoreComputeProperties_get(self, id)
    ELSE [self EXCEPT !.packages = [p \in DOMAIN @ |-> PackageComputeProperties_clear(@[p])]]

\* `compute_properties.get_mut(package_id).clear()`
clear_package(self, id) ==
    IF IsPanic(PackageStoreComputeProperties_get(self, id))
    THEN PackageStoreComputeProperties_get(self, id)
    ELSE [self EXCEPT !.packages[id] = PackageComputeProperties_clear(@)]

(***************************************************************************)
(* The package store (input of the analysis).  A package is a sequence of  *)
(* callable declarations; callable i owns block i, statement i and         *)
(* expression i of its package, its body being one call or nothing.        *)
(***************************************************************************)
\* The package compiled by default (core and std), and the open package.
LibraryPackage == 1
OpenPackage == 2
Packages == {LibraryPackage, OpenPackage}
\* Largest number of callables the open package grows to.
MaxItems == 2

NoCallee == StoreItemId(0, 0)
CallableDecl(kind, arity, callee) == [kind |-> kind, arity |-> arity, callee |-> callee]

\* The library: one intrinsic operation of two parameters.
Library == << CallableDecl("Operation", 2, NoCallee) >>

ItemsOf(store, package) ==
    { StoreItemId(package, i) : i \in 1..Len(store[package]) }
AllItems(store) == UNION { ItemsOf(store, p) : p \in DOMAIN store }
Decl(store, id) == store[id.package][id.item]

\* The callables reached from id by following at least one and at most n calls.
RECURSIVE Callees(_, _, _)
Callees(store, id, n) ==
    IF n = 0 \/ Decl(store, id).callee = NoCallee THEN {}
    ELSE {Decl(store, id).callee} \cup Callees(store, Decl(store, id).callee, n - 1)

\* Cycle detection: the callable takes part in a cycle of the call graph.
IsCyclic(store, id) == id \in Callees(store, id, Cardinality(AllItems(store)))

\* The conservative generator set of a cyclic callable.
CyclicGeneratorSet(decl) ==
    IF decl.kind = "Function"
    THEN ApplicationGeneratorSet(Classical,
             [i \in 1..decl.arity |->
                  ParamApplication_Element(
                      Quantum({CallToCyclicFunctionWithDynamicArg}, Element(Dynamic)))])
    ELSE ApplicationGeneratorSet(Quantum({CyclicOperationSpec}, Element(Dynamic)),
             [i \in 1..decl.arity |->
                  ParamApplication_Element(
                      Quantum({CyclicOperationSpec}, Element(Dynamic)))])

\* The overrider's generator set of a callable without a body.
IntrinsicGeneratorSet(decl) ==
    IF decl.kind = "Function"
    THEN ApplicationGeneratorSet(Classical,
             [i \in 1..decl.arity |->
                  ParamApplication_Element(
                      Quantum({UseOfDynamicDouble}, Element(Dynamic)))])
    ELSE ApplicationGeneratorSet(Quantum({}, Element(Dynamic)),
             [i \in 1..decl.arity |->
                  ParamApplication_Element(
                      Quantum({UseOfDynamicQubit}, Element(Dynamic)))])

\* The compute kind of the body's call when the caller's parameter, which it
\* passes on, is of the given runtime kind: the callee's generator set
\* specialized to the argument, plus CallToCyclicOperation for a cyclic operation.
CallComputeKind(callee_decl, callee_body, runtime_kind) ==
    LET args == [i \in 1..callee_decl.arity |-> Element(runtime_kind)]
        application_compute_kind == generate_application_compute_kind(callee_body, args)
    IN  IF /\ IsQuantum(callee_body.inherent)
           /\ CyclicOperationSpec \in callee_body.inherent.runtime_features
        THEN ComputeKind_aggregate(application_compute_kind,
                 Quantum({CallToCyclicOperation}, callee_body.inherent.value_kind))
        ELSE application_compute_kind

\* The generator set of a callable whose callee has been analyzed: the inherent
\* kind with the parameter static, and one application with it dynamic.
CallerGeneratorSet(decl, callee_decl, callee_body) ==
    ApplicationGeneratorSet(
        CallComputeKind(callee_decl, callee_body, Static),
        [i \in 1..decl.arity |->
             ParamApplication_Element(CallComputeKind(callee_decl, callee_body, Dynamic))])

\* The entries of one callable written to the store: its item, and the block,
\* statement and expression of its body.
InsertCallable(properties, id, generator_set_of_body) ==
    insert_expr(
        insert_stmt(
            insert_block(
                insert_item(properties, id, Callable(generator_set_of_body, None, None, None)),
                id, generator_set_of_body),
            id, generator_set_of_body),
        id, generator_set_of_body)

\* The placeholder scaffolding writes: inherent Classical, no parameters.
Placeholder == ApplicationGeneratorSet(Classical, <<>>)

\* Scaffolding: a placeholder for every block, statement and expression, and a
\* callable shell for every item, of the given callables.
RECURSIVE Scaffolding(_, _)
Scaffolding(properties, ids) ==
    IF ids = {} THEN properties
    ELSE LET id == CHOOSE x \in ids : TRUE
         IN  Scaffolding(InsertCallable(properties, id, Placeholder), ids \ {id})

\* The top-level statements of a package: the open package, once it has a
\* callable, ends with one statement, lowered after the callables and so with the
\* next ID, that calls its last callable on a static argument.
TopLevelStmts(store, package) ==
    IF package = OpenPackage /\ Len(store[package]) > 0
    THEN {StoreItemId(package, Len(store[package]) + 1)}
    ELSE {}
AllTopLevelStmts(store) == UNION { TopLevelStmts(store, p) : p \in DOMAIN store }
TopLevelCallee(id) == StoreItemId(id.package, id.item - 1)

\* The entries of one top-level statement: the statement and its expression.
InsertTopLevelStmt(properties, id, generator_set_of_stmt) ==
    insert_expr(insert_stmt(properties, id, generator_set_of_stmt),
                id, generator_set_of_stmt)

\* Scaffolding of the given top-level statements.
RECURSIVE ScaffoldingStmts(_, _)
ScaffoldingStmts(properties, ids) ==
    IF ids = {} THEN properties
    ELSE LET id == CHOOSE x \in ids : TRUE
         IN  ScaffoldingStmts(InsertTopLevelStmt(properties, id, Placeholder), ids \ {id})

\* A top-level statement given the parameter applications of a callable that
\* makes the same call.
TopLevelGeneratorSet_with_params(store, properties, id) ==
    CallerGeneratorSet(Decl(store, TopLevelCallee(id)), Decl(store, TopLevelCallee(id)),
                       find_item(properties, TopLevelCallee(id)).value.body)

\* The generator set the core pass assigns to a top-level statement: the compute
\* kind of its call, and no parameter applications as no callable encloses it.
TopLevelGeneratorSet(store, properties, id) ==
    ApplicationGeneratorSet(
        CallComputeKind(Decl(store, TopLevelCallee(id)),
                        find_item(properties, TopLevelCallee(id)).value.body, Static),
        <<>>)

\* Analyzer::init: an empty PackageComputeProperties for every package of the store.
Analyzer_init(store) ==
    PackageStoreComputeProperties([p \in DOMAIN store |-> PackageComputeProperties_default])

\* Cycle detection that finds nothing.
CyclicCallables_none(store, packages) == {}

\* Cycle detection over the given packages.
CyclicCallables(store, packages) ==
    { id \in UNION { ItemsOf(store, p) : p \in packages } : IsCyclic(store, id) }

\* The cyclic-callables overrider: every callable found cyclic gets its
\* conservative generator set.
RECURSIVE OverrideCyclic(_, _, _)
OverrideCyclic(store, properties, ids) ==
    IF ids = {} THEN properties
    ELSE LET id == CHOOSE x \in ids : TRUE
         IN  OverrideCyclic(store,
                 InsertCallable(properties, id, CyclicGeneratorSet(Decl(store, id))),
                 ids \ {id})

\* The memoization test of the core pass that takes every callee as analyzed.
CalleeAnalyzed_always(analyzed, callee) == TRUE

\* The memoization test of the core pass: the callee's generator set is final.
CalleeAnalyzed(analyzed, callee) == callee \in analyzed

\* The generator set the core pass assigns to a callable whose callee, if it has
\* one, is looked up in the store.
CoreGeneratorSet(store, properties, id) ==
    IF Decl(store, id).callee = NoCallee
    THEN IntrinsicGeneratorSet(Decl(store, id))
    ELSE CallerGeneratorSet(Decl(store, id), Decl(store, Decl(store, id).callee),
                            find_item(properties, Decl(store, id).callee).value.body)

\* The open package after one edit of its source: a callable appended, the last
\* callable removed, or the call in one callable's body changed.
CalleesFor(n) ==
    {NoCallee} \cup { StoreItemId(LibraryPackage, i) : i \in 1..Len(Library) }
               \cup { StoreItemId(OpenPackage, i) : i \in 1..n }
Edits(package) ==
    LET n == Len(package)
    IN  { Append(package, CallableDecl(kind, 1, callee)) :
              kind \in IF n < MaxItems THEN {"Function", "Operation"} ELSE {},
              callee \in CalleesFor(n + 1) }
        \cup { SubSeq(package, 1, n - 1) :
                   x \in IF /\ n > 0
                            /\ \A i \in 1..(n - 1) :
                                   package[i].callee # StoreItemId(OpenPackage, n)
                         THEN {n} ELSE {} }
        \cup { [package EXCEPT ![j].callee = callee] :
                   j \in 1..n, callee \in CalleesFor(n) }

AnalyzerIdle ==
    [phase |-> "idle", packages |-> {}, work |-> {}, stack |-> <<>>, analyzed |-> {}]
NoHistory == [prior |-> None, prior_by |-> "none", frame |-> <<>>, last_by |-> "none"]

(***************************************************************************)
(* The parts of the state a specification leaves alone.                    *)
(***************************************************************************)
RcaInit ==
    /\ fir_store = [p \in Packages |-> IF p = LibraryPackage THEN Library ELSE <<>>]
    /\ compute_properties = None
    /\ analyzer = AnalyzerIdle
    /\ history = NoHistory

NoLatticeCall == [method |-> "none"]
LatticeInit ==
    /\ operands = [self |-> Classical, value |-> Classical,
                   value_kind |-> Element(Static), variant |-> Element(Static)]
    /\ lattice_call = NoLatticeCall

NoStoreCall == [method |-> "none"]
StoreInit ==
    /\ store_properties = Analyzer_init([p \in Packages |-> <<>>])
    /\ inserted = <<>>
    /\ store_call = NoStoreCall

\* No block is being analysed.
NoWalk == [context |-> "none"]

CoreInit == core = NoWalk

(***************************************************************************)
(* Spec: generator sets are built and specialized to call applications.    *)
(***************************************************************************)
Init ==
    /\ generator_set \in { ApplicationGeneratorSet(inherent, <<>>) :
                               inherent \in SampleComputeKinds }
    /\ args_value_kinds = <<>>
    /\ application = NoApplication
    /\ features = {}
    /\ flags_call = [method |-> "none"]
    /\ RcaInit
    /\ LatticeInit
    /\ StoreInit
    /\ CoreInit

\* A generator set is built parameter by parameter (by the analyzer, an overrider
\* or a test) before it is specialized.
PushParamApplication ==
    /\ ~application.called
    /\ Len(generator_set.dynamic_param_applications) < MaxParams
    /\ \E param_application \in ParamApplications :
          generator_set' =
              [generator_set EXCEPT !.dynamic_param_applications =
                   Append(@, param_application)]
    /\ UNCHANGED <<args_value_kinds, application, flag_vars, rca_vars, lattice_vars, store_vars, core_vars>>

\* generator_set.generate_application_compute_kind(args)
GenerateApplicationComputeKind ==
    /\ ~application.called
    /\ \E args \in SeqsUpTo(ValueKind, MaxParams) :
          /\ args_value_kinds' = args
          /\ application' =
                 [called |-> TRUE,
                  compute_kind |-> generate_application(generator_set, args).compute_kind,
                  aggregations |-> generate_application(generator_set, args).aggregations]
    /\ UNCHANGED <<generator_set, flag_vars, rca_vars, lattice_vars, store_vars, core_vars>>

Next == PushParamApplication \/ GenerateApplicationComputeKind

Spec == Init /\ [][Next]_vars

(***************************************************************************)
(* The orders the claims compare in.                                       *)
(***************************************************************************)
RuntimeKind_leq(a, b) == a = Static \/ b = Dynamic
ValueKind_leq(v, w) ==
    /\ v.variant = w.variant
    /\ IF IsArray(v)
       THEN RuntimeKind_leq(v.content, w.content) /\ RuntimeKind_leq(v.size, w.size)
       ELSE RuntimeKind_leq(v.runtime_kind, w.runtime_kind)
\* Classical is bottom; Quantum(F, v) is below Quantum(F', v') when F is a subset
\* of F' and v is slot-wise below v'.
ComputeKind_leq(x, y) ==
    \/ IsClassical(x)
    \/ /\ IsQuantum(x)
       /\ IsQuantum(y)
       /\ x.runtime_features \subseteq y.runtime_features
       /\ ValueKind_leq(x.value_kind, y.value_kind)
\* The value kinds slot-wise at or above value_kind.
ValueKindsAbove(value_kind) == { w \in ValueKind : ValueKind_leq(value_kind, w) }
\* The argument vectors slot-wise at or above args.
RECURSIVE ArgsAbove(_)
ArgsAbove(args) ==
    IF args = <<>> THEN {<<>>}
    ELSE { <<head>> \o tail :
               head \in ValueKindsAbove(Head(args)), tail \in ArgsAbove(Tail(args)) }
AllStatic(value_kind) == value_kind \in {Element(Static), Array(Static, Static)}
ArityMatches == Len(args_value_kinds) = Len(generator_set.dynamic_param_applications)
Returned == application.called /\ ~IsPanic(application.compute_kind)

(***************************************************************************)
(* C1. With matching arity, generate_application_compute_kind(a) is the    *)
(* inherent kind folded with ComputeKind.aggregate, in parameter order,    *)
(* with one delta per parameter: for an Element parameter nothing when the *)
(* argument projects to Element(Static) and the Element delta when it      *)
(* projects to Element(Dynamic); for an Array parameter nothing for        *)
(* (Static,Static), dynamic_content_static_size for (Dynamic,Static),      *)
(* static_content_dynamic_size for (Static,Dynamic) and                    *)
(* dynamic_content_dynamic_size for (Dynamic,Dynamic).                     *)
(***************************************************************************)
\* The projection of an argument onto the parameter's variant, as the claim reads it.
C1_Projected(param_application, arg) ==
    IF param_application.variant = "Element"
    THEN IF arg \in {Element(Dynamic), Array(Dynamic, Static),
                     Array(Static, Dynamic), Array(Dynamic, Dynamic)}
         THEN Element(Dynamic) ELSE Element(Static)
    ELSE IF arg.variant = "Element"
         THEN Array(arg.runtime_kind, arg.runtime_kind)
         ELSE arg
\* The deltas the claim's table selects: none, or one.
C1_Delta(param_application, arg) ==
    LET projected == C1_Projected(param_application, arg)
    IN  CASE projected = Element(Static) -> <<>>
          [] projected = Element(Dynamic) -> <<param_application.compute_kind>>
          [] projected = Array(Static, Static) -> <<>>
          [] projected = Array(Dynamic, Static) ->
                 <<param_application.dynamic_content_static_size>>
          [] projected = Array(Static, Dynamic) ->
                 <<param_application.static_content_dynamic_size>>
          [] projected = Array(Dynamic, Dynamic) ->
                 <<param_application.dynamic_content_dynamic_size>>
RECURSIVE C1_Fold(_, _, _, _)
C1_Fold(g, args, i, result) ==
    IF i > Len(args) THEN result
    ELSE LET delta == C1_Delta(g.dynamic_param_applications[i], args[i])
         IN  C1_Fold(g, args, i + 1,
                 IF delta = <<>> THEN result ELSE ComputeKind_aggregate(result, delta[1]))
C1_ApplicationIsFoldOfSelectedDeltas ==
    (application.called /\ ArityMatches) =>
        application.compute_kind =
            C1_Fold(generator_set, args_value_kinds, 1, generator_set.inherent)
\* A two-parameter call returned a Quantum kind built from an Array parameter's
\* dynamic_content_static_size delta and an Element parameter's delta.
C1_Witness ==
    /\ Returned /\ ArityMatches
    /\ Len(args_value_kinds) = 2
    /\ generator_set.dynamic_param_applications[1].variant = "Array"
    /\ generator_set.dynamic_param_applications[1].dynamic_content_static_size # Classical
    /\ generator_set.dynamic_param_applications[1].static_content_dynamic_size = Classical
    /\ args_value_kinds[1] = Array(Dynamic, Static)
    /\ generator_set.dynamic_param_applications[2].variant = "Element"
    /\ args_value_kinds[2] = Element(Dynamic)
    /\ application.compute_kind = Quantum({UseOfDynamicBool, UseOfDynamicInt}, Element(Dynamic))

(***************************************************************************)
(* C2. When every argument is all-static (Element(Static) or               *)
(* Array(Static,Static), in any mix with Element and Array parameters),    *)
(* the result is exactly the generator set's inherent compute kind,        *)
(* whatever the deltas are.                                                *)
(***************************************************************************)
C2_AllStaticArgsGiveInherent ==
    (/\ application.called /\ ArityMatches
     /\ \A i \in 1..Len(args_value_kinds) : AllStatic(args_value_kinds[i])) =>
        application.compute_kind = generator_set.inherent
\* A Classical generator set with an Array and an Element parameter, both with
\* Quantum deltas, was specialized with static arguments of the other variant.
C2_Witness ==
    /\ application.called /\ ArityMatches
    /\ Len(args_value_kinds) = 2
    /\ generator_set.inherent = Classical
    /\ generator_set.dynamic_param_applications[1].variant = "Array"
    /\ generator_set.dynamic_param_applications[1].dynamic_content_dynamic_size # Classical
    /\ generator_set.dynamic_param_applications[2].variant = "Element"
    /\ generator_set.dynamic_param_applications[2].compute_kind # Classical
    /\ args_value_kinds = <<Element(Static), Array(Static, Static)>>
    /\ application.compute_kind = Classical

(***************************************************************************)
(* C3. Monotonicity of specialization.  As claimed: for every generator    *)
(* set and all argument vectors a, a' with a[i] slot-wise below a'[i], the *)
(* result for a is below the result for a' (read for the calls that        *)
(* return).  As amended: the same for every generator set whose Array      *)
(* parameters each have dynamic_content_static_size and                    *)
(* static_content_dynamic_size below dynamic_content_dynamic_size.         *)
(***************************************************************************)
C3_MonotoneHere ==
    \A above \in ArgsAbove(args_value_kinds) :
        LET result == generate_application_compute_kind(generator_set, above)
        IN  IsPanic(result) \/ ComputeKind_leq(application.compute_kind, result)
C3_OrderedArrayDeltas ==
    \A i \in 1..Len(generator_set.dynamic_param_applications) :
        LET pa == generator_set.dynamic_param_applications[i]
        IN  pa.variant = "Array" =>
                /\ ComputeKind_leq(pa.dynamic_content_static_size,
                                   pa.dynamic_content_dynamic_size)
                /\ ComputeKind_leq(pa.static_content_dynamic_size,
                                   pa.dynamic_content_dynamic_size)
C3_MonotoneForEveryGeneratorSet ==
    (Returned /\ ArityMatches) => C3_MonotoneHere
C3_MonotoneForOrderedDeltas ==
    (Returned /\ ArityMatches /\ C3_OrderedArrayDeltas) => C3_MonotoneHere
\* A generator set with ordered, non-trivial Array deltas and an Element delta was
\* specialized below the top of the argument order and returned a Quantum kind.
C3_Witness ==
    /\ Returned /\ ArityMatches /\ C3_OrderedArrayDeltas
    /\ Len(args_value_kinds) = 2
    /\ generator_set.dynamic_param_applications[1].variant = "Array"
    /\ generator_set.dynamic_param_applications[1].dynamic_content_static_size = Classical
    /\ generator_set.dynamic_param_applications[1].dynamic_content_dynamic_size # Classical
    /\ generator_set.dynamic_param_applications[2].variant = "Element"
    /\ generator_set.dynamic_param_applications[2].compute_kind # Classical
    /\ args_value_kinds = <<Array(Dynamic, Static), Element(Dynamic)>>
    /\ IsQuantum(application.compute_kind)
    /\ \E above \in ArgsAbove(args_value_kinds) :
          LET result == generate_application_compute_kind(generator_set, above)
          IN  ~IsPanic(result) /\ result # application.compute_kind

(***************************************************************************)
(* C4. generate_application_compute_kind aborts whenever the number of     *)
(* argument value kinds differs from the number of parameter applications, *)
(* in either direction, before any aggregation takes place.                *)
(***************************************************************************)
C4_ArityMismatchAbortsFirst ==
    (application.called /\ ~ArityMatches) =>
        /\ IsPanic(application.compute_kind)
        /\ application.aggregations = 0
\* More arguments than parameters, the first of which would have selected a
\* Quantum delta.
C4_Witness ==
    /\ application.called
    /\ Len(args_value_kinds) = 2
    /\ Len(generator_set.dynamic_param_applications) = 1
    /\ generator_set.dynamic_param_applications[1].variant = "Element"
    /\ generator_set.dynamic_param_applications[1].compute_kind # Classical
    /\ args_value_kinds[1] = Element(Dynamic)
    /\ IsPanic(application.compute_kind)
\* Fewer arguments than parameters.
C4_WitnessFewerArgs ==
    /\ application.called
    /\ Len(args_value_kinds) = 1
    /\ Len(generator_set.dynamic_param_applications) = 2
    /\ IsPanic(application.compute_kind)

(***************************************************************************)
(* SpecFlags: feature flag sets are built and mapped to capabilities.      *)
(***************************************************************************)
NoFlagsCall == [method |-> "none"]

InitFlags ==
    /\ features = {}
    /\ flags_call = NoFlagsCall
    /\ generator_set = ApplicationGeneratorSet(Classical, <<>>)
    /\ args_value_kinds = <<>>
    /\ application = NoApplication
    /\ RcaInit
    /\ LatticeInit
    /\ StoreInit
    /\ CoreInit

\* `features |= flag` for a defined flag.
InsertFlag ==
    /\ flags_call = NoFlagsCall
    /\ Cardinality(features) < MaxFeatures
    /\ \E flag \in RuntimeFeatureFlags \ features : features' = features \cup {flag}
    /\ UNCHANGED <<flags_call, gen_vars, rca_vars, lattice_vars, store_vars, core_vars>>

\* features.runtime_capabilities()
RuntimeCapabilities ==
    /\ flags_call = NoFlagsCall
    /\ flags_call' = [method |-> "runtime_capabilities",
                      ret |-> runtime_capabilities(features)]
    /\ UNCHANGED <<features, gen_vars, rca_vars, lattice_vars, store_vars, core_vars>>

\* features.contributing_features(caps)
ContributingFeatures ==
    /\ flags_call = NoFlagsCall
    /\ \E caps \in SUBSET RuntimeCapabilityFlags :
          flags_call' = [method |-> "contributing_features",
                         runtime_capabilities |-> caps,
                         ret |-> contributing_features(features, caps)]
    /\ UNCHANGED <<features, gen_vars, rca_vars, lattice_vars, store_vars, core_vars>>

NextFlags == InsertFlag \/ RuntimeCapabilities \/ ContributingFeatures

SpecFlags == InitFlags /\ [][NextFlags]_vars

(***************************************************************************)
(* C9. Capability agreement: for every set F of defined runtime features,  *)
(* F.contributing_features(F.runtime_capabilities()) equals F; every       *)
(* defined feature maps to a non-empty capability set.                     *)
(***************************************************************************)
C9_CapabilityAgreement ==
    /\ (/\ flags_call.method = "contributing_features"
        /\ flags_call.runtime_capabilities = runtime_capabilities(features)) =>
           flags_call.ret = features
    /\ (flags_call.method = "runtime_capabilities" /\ features # {}) =>
           flags_call.ret # {}
\* contributing_features returned for a two-feature set and that set's own
\* capabilities, which are two different buckets.
C9_Witness ==
    /\ flags_call.method = "contributing_features"
    /\ features = {UseOfDynamicDouble, UseOfClosure}
    /\ flags_call.runtime_capabilities =
           {"FloatingPointComputations", "HigherLevelConstructs"}
    /\ flags_call.ret = features

(***************************************************************************)
(* C10. Feature/capability table: the 24 features sit at bits 0 to 23 in   *)
(* the order of the spec's table, and runtime_capabilities of a single     *)
(* feature is exactly one bucket: ForwardBranching for bits 0, 17 and 21,  *)
(* IntegerComputations for bits 1, 2 and 3, FloatingPointComputations for  *)
(* bit 4, BackwardsBranching for bit 22, HigherLevelConstructs for every   *)
(* other defined bit.                                                      *)
(***************************************************************************)
C10_Bucket(bit) ==
    CASE bit \in {0, 17, 21} -> "ForwardBranching"
      [] bit \in {1, 2, 3} -> "IntegerComputations"
      [] bit = 4 -> "FloatingPointComputations"
      [] bit = 22 -> "BackwardsBranching"
      [] OTHER -> "HigherLevelConstructs"
C10_BitPositions ==
    <<UseOfDynamicBool, UseOfDynamicInt, UseOfDynamicPauli, UseOfDynamicRange,
      UseOfDynamicDouble, UseOfDynamicQubit, UseOfDynamicBigInt, UseOfDynamicString,
      UseOfDynamicallySizedArray, UseOfDynamicUdt, UseOfDynamicArrowFunction,
      UseOfDynamicArrowOperation, CallToCyclicFunctionWithDynamicArg,
      CyclicOperationSpec, CallToCyclicOperation, CallToDynamicCallee,
      CallToUnresolvedCallee, ForwardBranchingOnDynamicValue, DynamicQubitAllocation,
      DynamicResultAllocation, UseOfDynamicIndex, ReturnWithinDynamicScope,
      LoopWithDynamicCondition, UseOfClosure>>
C10_FeatureCapabilityTable ==
    /\ \A i \in 1..24 : C10_BitPositions[i] = i - 1
    /\ RuntimeFeatureFlags = 0..23
    /\ (flags_call.method = "runtime_capabilities" /\ Cardinality(features) = 1) =>
           \E bit \in 0..23 :
               features = {bit} /\ flags_call.ret = {C10_Bucket(bit)}
\* runtime_capabilities returned for the single feature at bit 22.
C10_Witness ==
    /\ flags_call.method = "runtime_capabilities"
    /\ features = {22}
    /\ flags_call.ret = {"BackwardsBranching"}
(***************************************************************************)
(* C11. runtime_capabilities of a feature set is the union of the buckets  *)
(* of its features: empty for the empty set, and the union of the          *)
(* capabilities of any two sets that make it up.  contributing_features    *)
(* for capabilities C is exactly the features of the set whose bucket is   *)
(* in C: a subset of the set, empty when C is empty.                       *)
(***************************************************************************)
C11_UnionOfBuckets ==
    /\ flags_call.method = "runtime_capabilities" =>
           /\ flags_call.ret = { C10_Bucket(f) : f \in features }
           /\ features = {} => flags_call.ret = {}
           /\ \A G \in SUBSET features : \A H \in SUBSET features :
                  G \cup H = features =>
                      flags_call.ret = runtime_capabilities(G) \cup runtime_capabilities(H)
    /\ flags_call.method = "contributing_features" =>
           /\ flags_call.ret =
                  { f \in features : C10_Bucket(f) \in flags_call.runtime_capabilities }
           /\ flags_call.ret \subseteq features
           /\ flags_call.runtime_capabilities = {} => flags_call.ret = {}
\* contributing_features returned one of two features: the one of the two
\* buckets that the given capabilities hold.
C11_Witness ==
    /\ flags_call.method = "contributing_features"
    /\ features = {UseOfDynamicInt, LoopWithDynamicCondition}
    /\ flags_call.runtime_capabilities = {"BackwardsBranching", "FloatingPointComputations"}
    /\ flags_call.ret = {LoopWithDynamicCondition}
\* runtime_capabilities returned the two buckets of a two-feature set.
C11_WitnessUnion ==
    /\ flags_call.method = "runtime_capabilities"
    /\ features = {UseOfDynamicBool, UseOfDynamicDouble}
    /\ flags_call.ret = {"ForwardBranching", "FloatingPointComputations"}

(***************************************************************************)
(* SpecLattice: the operations of ComputeKind and ValueKind are applied to *)
(* operands drawn from the bounded sets below.  operands.value_kind is the *)
(* ValueKind argument of the ComputeKind operations and the receiver of    *)
(* the ValueKind ones; operands.variant is the other ValueKind, the one    *)
(* project_onto_variant writes to.                                         *)
(***************************************************************************)
\* Largest number of project_onto_variant calls on one target.
MaxProjections == 2

LatticeFeatures == { feature \in RuntimeFeatureFlags : feature < MaxFeatures }
LatticeComputeKinds ==
    {Classical} \cup
    { Quantum(runtime_features, value_kind) :
          runtime_features \in SUBSET LatticeFeatures, value_kind \in ValueKind }

InitLattice ==
    /\ \/ \E self \in LatticeComputeKinds, value \in LatticeComputeKinds,
             value_kind \in ValueKind :
              operands = [self |-> self, value |-> value,
                          value_kind |-> value_kind, variant |-> Element(Static)]
       \/ \E value_kind \in ValueKind, variant \in ValueKind :
              operands = [self |-> Classical, value |-> Classical,
                          value_kind |-> value_kind, variant |-> variant]
    /\ lattice_call = NoLatticeCall
    /\ generator_set = ApplicationGeneratorSet(Classical, <<>>)
    /\ args_value_kinds = <<>>
    /\ application = NoApplication
    /\ features = {}
    /\ flags_call = NoFlagsCall
    /\ RcaInit
    /\ StoreInit
    /\ CoreInit

\* self.aggregate(value) on compute kinds
ComputeKindAggregate ==
    /\ lattice_call = NoLatticeCall
    /\ lattice_call' = [method |-> "ComputeKind::aggregate",
                        ret |-> ComputeKind_aggregate(operands.self, operands.value)]
    /\ UNCHANGED <<operands, gen_vars, flag_vars, rca_vars, store_vars, core_vars>>

\* self.aggregate_runtime_features(value, default_value_kind)
AggregateRuntimeFeatures ==
    /\ lattice_call = NoLatticeCall
    /\ lattice_call' = [method |-> "ComputeKind::aggregate_runtime_features",
                        ret |-> aggregate_runtime_features(
                                    operands.self, operands.value, operands.value_kind)]
    /\ UNCHANGED <<operands, gen_vars, flag_vars, rca_vars, store_vars, core_vars>>

\* self.aggregate_value_kind(value): self is written in place, or the call aborts.
AggregateValueKind ==
    /\ lattice_call = NoLatticeCall
    /\ LET ret == aggregate_value_kind(operands.self, operands.value_kind)
       IN  /\ lattice_call' = [method |-> "ComputeKind::aggregate_value_kind",
                               self_before |-> operands.self, ret |-> ret]
           /\ operands' = IF IsPanic(ret) THEN operands
                          ELSE [operands EXCEPT !.self = ret]
    /\ UNCHANGED <<gen_vars, flag_vars, rca_vars, store_vars, core_vars>>

\* self.aggregate(value) on value kinds
ValueKindAggregate ==
    /\ lattice_call = NoLatticeCall
    /\ lattice_call' = [method |-> "ValueKind::aggregate",
                        ret |-> ValueKind_aggregate(operands.value_kind, operands.variant)]
    /\ UNCHANGED <<operands, gen_vars, flag_vars, rca_vars, store_vars, core_vars>>

\* self.project_onto_variant(&mut variant), once or again on the same target.
ProjectOntoVariant ==
    /\ \/ lattice_call = NoLatticeCall
       \/ /\ lattice_call.method = "ValueKind::project_onto_variant"
          /\ lattice_call.projections < MaxProjections
    /\ lattice_call' = [method |-> "ValueKind::project_onto_variant",
                        projections |-> IF lattice_call = NoLatticeCall THEN 1
                                        ELSE lattice_call.projections + 1,
                        variant_before |-> operands.variant]
    /\ operands' = [operands EXCEPT
                        !.variant = project_onto_variant(operands.value_kind, operands.variant)]
    /\ UNCHANGED <<gen_vars, flag_vars, rca_vars, store_vars, core_vars>>

NextLattice ==
    \/ ComputeKindAggregate
    \/ AggregateRuntimeFeatures
    \/ AggregateValueKind
    \/ ValueKindAggregate
    \/ ProjectOntoVariant

SpecLattice == InitLattice /\ [][NextLattice]_vars

\* The join of the two-element lattice Static below Dynamic, and the value kinds
\* of one variant joined slot by slot.
JoinRuntimeKind(a, b) == IF a = Dynamic \/ b = Dynamic THEN Dynamic ELSE Static
JoinValueKind(v, w) ==
    IF IsArray(v)
    THEN Array(JoinRuntimeKind(v.content, w.content), JoinRuntimeKind(v.size, w.size))
    ELSE Element(JoinRuntimeKind(v.runtime_kind, w.runtime_kind))
SameVariant(v, w) == v.variant = w.variant

(***************************************************************************)
(* C12. ComputeKind::aggregate(x, y): y Classical gives x; x Classical     *)
(* gives y; two Quantum kinds give the Quantum kind with the union of the  *)
(* features and the join of the value kinds (which exists when their       *)
(* variants are the same).  Classical is an identity on both sides.        *)
(***************************************************************************)
C12_ComputeKindAggregate ==
    lattice_call.method = "ComputeKind::aggregate" =>
        LET x == operands.self
            y == operands.value
        IN  /\ IsClassical(y) => lattice_call.ret = x
            /\ IsClassical(x) => lattice_call.ret = y
            /\ (IsQuantum(x) /\ IsQuantum(y) /\ SameVariant(x.value_kind, y.value_kind)) =>
                   lattice_call.ret =
                       Quantum(x.runtime_features \cup y.runtime_features,
                               JoinValueKind(x.value_kind, y.value_kind))
\* Two Quantum kinds with different features and array value kinds, Dynamic in
\* different slots, were aggregated.
C12_Witness ==
    /\ lattice_call.method = "ComputeKind::aggregate"
    /\ operands.self = Quantum({UseOfDynamicBool}, Array(Dynamic, Static))
    /\ operands.value = Quantum({UseOfDynamicInt}, Array(Static, Dynamic))
    /\ lattice_call.ret =
           Quantum({UseOfDynamicBool, UseOfDynamicInt}, Array(Dynamic, Dynamic))
\* Classical was aggregated with a Quantum kind.
C12_WitnessIdentity ==
    /\ lattice_call.method = "ComputeKind::aggregate"
    /\ operands.self = Classical
    /\ operands.value = Quantum({UseOfDynamicInt}, Element(Dynamic))
    /\ lattice_call.ret = operands.value

(***************************************************************************)
(* C13. ComputeKind::aggregate_runtime_features(x, y, d): for Quantum y    *)
(* the result is Quantum with the features of x (none if x is Classical)   *)
(* and of y, and the value kind of x if x is Quantum, d if x is Classical; *)
(* the value kind of y makes no difference, and the call returns when the  *)
(* variants of x and y differ.  For Classical y the result is x.           *)
(***************************************************************************)
C13_AggregateRuntimeFeatures ==
    lattice_call.method = "ComputeKind::aggregate_runtime_features" =>
        LET x == operands.self
            y == operands.value
            d == operands.value_kind
        IN  /\ IsClassical(y) => lattice_call.ret = x
            /\ IsQuantum(y) =>
                   /\ lattice_call.ret =
                          Quantum((IF IsQuantum(x) THEN x.runtime_features ELSE {})
                                      \cup y.runtime_features,
                                  IF IsQuantum(x) THEN x.value_kind ELSE d)
                   /\ \A value_kind \in ValueKind :
                          aggregate_runtime_features(
                              x, Quantum(y.runtime_features, value_kind), d) = lattice_call.ret
            /\ ~IsPanic(lattice_call.ret)
\* A Quantum kind with an Array value kind took the features of one with an
\* Element value kind.
C13_Witness ==
    /\ lattice_call.method = "ComputeKind::aggregate_runtime_features"
    /\ operands.self = Quantum({UseOfDynamicBool}, Array(Static, Dynamic))
    /\ operands.value = Quantum({UseOfDynamicInt}, Element(Dynamic))
    /\ lattice_call.ret =
           Quantum({UseOfDynamicBool, UseOfDynamicInt}, Array(Static, Dynamic))
\* Classical took the features of a Quantum kind and the default value kind.
C13_WitnessDefault ==
    /\ lattice_call.method = "ComputeKind::aggregate_runtime_features"
    /\ operands.self = Classical
    /\ operands.value = Quantum({UseOfDynamicInt}, Element(Dynamic))
    /\ operands.value_kind = Array(Static, Static)
    /\ lattice_call.ret = Quantum({UseOfDynamicInt}, Array(Static, Static))

(***************************************************************************)
(* C14. ValueKind::aggregate of two value kinds of one variant is the join *)
(* slot by slot, Static joined with x being x and Dynamic joined with      *)
(* anything Dynamic: a slot of the result is Dynamic exactly when it is    *)
(* Dynamic in an operand, and Array(Static, Static) with itself is itself. *)
(***************************************************************************)
C14_ValueKindJoin ==
    /\ \A x \in RuntimeKind :
           /\ RuntimeKind_aggregate(Static, x) = x
           /\ RuntimeKind_aggregate(x, Static) = x
           /\ RuntimeKind_aggregate(Dynamic, x) = Dynamic
           /\ RuntimeKind_aggregate(x, Dynamic) = Dynamic
    /\ (/\ lattice_call.method = "ValueKind::aggregate"
        /\ SameVariant(operands.value_kind, operands.variant)) =>
           LET v == operands.value_kind
               w == operands.variant
               r == lattice_call.ret
           IN  /\ r = JoinValueKind(v, w)
               /\ IsElement(v) =>
                      /\ IsElement(r)
                      /\ r.runtime_kind = Dynamic <=>
                             (v.runtime_kind = Dynamic \/ w.runtime_kind = Dynamic)
               /\ IsArray(v) =>
                      /\ IsArray(r)
                      /\ r.content = Dynamic <=> (v.content = Dynamic \/ w.content = Dynamic)
                      /\ r.size = Dynamic <=> (v.size = Dynamic \/ w.size = Dynamic)
               /\ (v = Array(Static, Static) /\ w = v) => r = Array(Static, Static)
\* Two arrays, Dynamic in different slots, were aggregated.
C14_Witness ==
    /\ lattice_call.method = "ValueKind::aggregate"
    /\ operands.value_kind = Array(Static, Dynamic)
    /\ operands.variant = Array(Dynamic, Static)
    /\ lattice_call.ret = Array(Dynamic, Dynamic)
\* Array(Static, Static) was aggregated with itself.
C14_WitnessStatic ==
    /\ lattice_call.method = "ValueKind::aggregate"
    /\ operands.value_kind = Array(Static, Static)
    /\ operands.variant = Array(Static, Static)
    /\ lattice_call.ret = Array(Static, Static)

(***************************************************************************)
(* C15. Aggregating value kinds of different variants aborts:              *)
(* ValueKind::aggregate of an Element with an Array, in either order;      *)
(* ComputeKind::aggregate of two Quantum kinds whose value kinds differ in *)
(* variant; and aggregate_value_kind on a Classical compute kind.  None    *)
(* returns a value, and aggregate_value_kind leaves self as it was.        *)
(***************************************************************************)
C15_MismatchAborts ==
    /\ (/\ lattice_call.method = "ValueKind::aggregate"
        /\ ~SameVariant(operands.value_kind, operands.variant)) =>
           /\ IsPanic(lattice_call.ret)
           /\ lattice_call.ret.message =
                  "only value kinds of the same variant can be aggregated"
    /\ (/\ lattice_call.method = "ComputeKind::aggregate"
        /\ IsQuantum(operands.self) /\ IsQuantum(operands.value)
        /\ ~SameVariant(operands.self.value_kind, operands.value.value_kind)) =>
           IsPanic(lattice_call.ret)
    /\ (/\ lattice_call.method = "ComputeKind::aggregate_value_kind"
        /\ IsClassical(lattice_call.self_before)) =>
           /\ IsPanic(lattice_call.ret)
           /\ lattice_call.ret.message =
                  "a value kind can only be aggregated to a compute kind of the quantum variant"
           /\ operands.self = lattice_call.self_before
\* ValueKind::aggregate of an Element with an Array aborted.
C15_Witness ==
    /\ lattice_call.method = "ValueKind::aggregate"
    /\ operands.value_kind = Element(Static)
    /\ operands.variant = Array(Static, Static)
    /\ IsPanic(lattice_call.ret)
\* ValueKind::aggregate of an Array with an Element aborted.
C15_WitnessArrayFirst ==
    /\ lattice_call.method = "ValueKind::aggregate"
    /\ IsArray(operands.value_kind)
    /\ IsElement(operands.variant)
    /\ IsPanic(lattice_call.ret)
\* ComputeKind::aggregate of two Quantum kinds of different variants aborted.
C15_WitnessComputeKind ==
    /\ lattice_call.method = "ComputeKind::aggregate"
    /\ operands.self = Quantum({}, Element(Dynamic))
    /\ operands.value = Quantum({}, Array(Dynamic, Dynamic))
    /\ IsPanic(lattice_call.ret)
\* aggregate_value_kind on Classical aborted.
C15_WitnessClassical ==
    /\ lattice_call.method = "ComputeKind::aggregate_value_kind"
    /\ lattice_call.self_before = Classical
    /\ IsPanic(lattice_call.ret)

(***************************************************************************)
(* C16. project_onto_variant keeps the variant of the target and writes    *)
(* its runtime kinds from the source: onto an Array, Element(k) gives      *)
(* Array(k, k) and Array(c, s) gives Array(c, s); onto an Element,         *)
(* Array(c, s) gives Element(Dynamic) if c or s is Dynamic and             *)
(* Element(Static) if not, and Element(k) gives Element(k).  The runtime   *)
(* kinds the target held make no difference.                               *)
(***************************************************************************)
C16_Expected(source, target) ==
    CASE IsArray(target) /\ IsElement(source) ->
             Array(source.runtime_kind, source.runtime_kind)
      [] IsArray(target) /\ IsArray(source) -> Array(source.content, source.size)
      [] IsElement(target) /\ IsArray(source) ->
             IF source.content = Dynamic \/ source.size = Dynamic
             THEN Element(Dynamic) ELSE Element(Static)
      [] IsElement(target) /\ IsElement(source) -> Element(source.runtime_kind)
C16_ProjectionTable ==
    (lattice_call.method = "ValueKind::project_onto_variant"
         /\ lattice_call.projections = 1) =>
        /\ operands.variant = C16_Expected(operands.value_kind, lattice_call.variant_before)
        /\ SameVariant(operands.variant, lattice_call.variant_before)
        /\ \A target \in ValueKind :
               SameVariant(target, lattice_call.variant_before) =>
                   project_onto_variant(operands.value_kind, target) = operands.variant
\* An Element(Dynamic) source was projected onto an all-static Array target.
C16_Witness ==
    /\ lattice_call.method = "ValueKind::project_onto_variant"
    /\ lattice_call.projections = 1
    /\ operands.value_kind = Element(Dynamic)
    /\ lattice_call.variant_before = Array(Static, Static)
    /\ operands.variant = Array(Dynamic, Dynamic)
\* An Array source with a dynamic size was projected onto an Element target.
C16_WitnessCollapse ==
    /\ lattice_call.method = "ValueKind::project_onto_variant"
    /\ lattice_call.projections = 1
    /\ operands.value_kind = Array(Static, Dynamic)
    /\ lattice_call.variant_before = Element(Static)
    /\ operands.variant = Element(Dynamic)

(***************************************************************************)
(* C17. project_onto_variant is idempotent when the variants of source and *)
(* target already match: the target then equals the source, and projecting *)
(* again changes nothing.                                                  *)
(***************************************************************************)
C17_ProjectionIdempotent ==
    (/\ lattice_call.method = "ValueKind::project_onto_variant"
     /\ SameVariant(operands.value_kind, lattice_call.variant_before)) =>
        /\ operands.variant = operands.value_kind
        /\ lattice_call.projections > 1 => operands.variant = lattice_call.variant_before
        /\ project_onto_variant(operands.variant, operands.variant) = operands.variant
\* An Array source was projected a second time onto the same Array target.
C17_Witness ==
    /\ lattice_call.method = "ValueKind::project_onto_variant"
    /\ lattice_call.projections = 2
    /\ operands.value_kind = Array(Dynamic, Static)
    /\ lattice_call.variant_before = Array(Dynamic, Static)
    /\ operands.variant = Array(Dynamic, Static)

(***************************************************************************)
(* SpecStore: entries are inserted into, looked up in and cleared from a   *)
(* PackageStoreComputeProperties that holds the two packages.              *)
(***************************************************************************)
\* Largest number of entries the store holds at once.
MaxEntries == 2

StoreIds == { StoreItemId(package, item) : package \in Packages, item \in {1, 2} }
\* A package the store has no entry for, and the IDs the methods are called with.
AbsentPackage == 3
CallIds == StoreIds \cup {StoreItemId(AbsentPackage, 1)}
StoreGeneratorSets ==
    { Placeholder,
      ApplicationGeneratorSet(Quantum({UseOfDynamicQubit}, Element(Dynamic)), <<>>) }
StoreItems == { NonCallable, Callable(Placeholder, None, None, None) }

\* The key of `inserted` for an entry of one of the four maps.
Slot(map, id) == [map |-> map, package |-> id.package, item |-> id.item]
RoomFor(slot) == slot \in DOMAIN inserted \/ Cardinality(DOMAIN inserted) < MaxEntries
Record(slot, value) ==
    [k \in (DOMAIN inserted) \cup {slot} |-> IF k = slot THEN value ELSE inserted[k]]
Writable == store_call.method \in {"none", "clear"}

InitStore ==
    /\ StoreInit
    /\ CoreInit
    /\ LatticeInit
    /\ RcaInit
    /\ generator_set = ApplicationGeneratorSet(Classical, <<>>)
    /\ args_value_kinds = <<>>
    /\ application = NoApplication
    /\ features = {}
    /\ flags_call = NoFlagsCall

\* The inserts.  An insert into a package without an entry aborts in get_mut,
\* before anything is written: store_call holds the abort.
InsertBlock ==
    /\ Writable
    /\ \E id \in CallIds, value \in StoreGeneratorSets :
        IF IsPanic(insert_block(store_properties, id, value))
        THEN /\ store_call' = [method |-> "insert_block", id |-> id,
                               ret |-> insert_block(store_properties, id, value)]
             /\ UNCHANGED <<store_properties, inserted>>
        ELSE /\ RoomFor(Slot("blocks", id))
             /\ store_properties' = insert_block(store_properties, id, value)
             /\ inserted' = Record(Slot("blocks", id), value)
             /\ store_call' = NoStoreCall
    /\ UNCHANGED <<gen_vars, flag_vars, rca_vars, lattice_vars, core_vars>>

InsertExpr ==
    /\ Writable
    /\ \E id \in CallIds, value \in StoreGeneratorSets :
        IF IsPanic(insert_expr(store_properties, id, value))
        THEN /\ store_call' = [method |-> "insert_expr", id |-> id,
                               ret |-> insert_expr(store_properties, id, value)]
             /\ UNCHANGED <<store_properties, inserted>>
        ELSE /\ RoomFor(Slot("exprs", id))
             /\ store_properties' = insert_expr(store_properties, id, value)
             /\ inserted' = Record(Slot("exprs", id), value)
             /\ store_call' = NoStoreCall
    /\ UNCHANGED <<gen_vars, flag_vars, rca_vars, lattice_vars, core_vars>>

InsertItem ==
    /\ Writable
    /\ \E id \in CallIds, value \in StoreItems :
        IF IsPanic(insert_item(store_properties, id, value))
        THEN /\ store_call' = [method |-> "insert_item", id |-> id,
                               ret |-> insert_item(store_properties, id, value)]
             /\ UNCHANGED <<store_properties, inserted>>
        ELSE /\ RoomFor(Slot("items", id))
             /\ store_properties' = insert_item(store_properties, id, value)
             /\ inserted' = Record(Slot("items", id), value)
             /\ store_call' = NoStoreCall
    /\ UNCHANGED <<gen_vars, flag_vars, rca_vars, lattice_vars, core_vars>>

InsertStmt ==
    /\ Writable
    /\ \E id \in CallIds, value \in StoreGeneratorSets :
        IF IsPanic(insert_stmt(store_properties, id, value))
        THEN /\ store_call' = [method |-> "insert_stmt", id |-> id,
                               ret |-> insert_stmt(store_properties, id, value)]
             /\ UNCHANGED <<store_properties, inserted>>
        ELSE /\ RoomFor(Slot("stmts", id))
             /\ store_properties' = insert_stmt(store_properties, id, value)
             /\ inserted' = Record(Slot("stmts", id), value)
             /\ store_call' = NoStoreCall
    /\ UNCHANGED <<gen_vars, flag_vars, rca_vars, lattice_vars, core_vars>>

\* `get_mut(package_id).clear()`; store_call keeps how many entries the package held.
Clear ==
    /\ Writable
    /\ \E package_id \in Packages :
        /\ store_properties' = clear_package(store_properties, package_id)
        /\ inserted' = [k \in { slot \in DOMAIN inserted : slot.package # package_id }
                            |-> inserted[k]]
        /\ store_call' =
               [method |-> "clear", package |-> package_id,
                entries |-> Cardinality({ slot \in DOMAIN inserted :
                                              slot.package = package_id })]
    /\ UNCHANGED <<gen_vars, flag_vars, rca_vars, lattice_vars, core_vars>>

\* The lookups: store_call holds what the method returned, or its abort.
FindBlock ==
    /\ Writable
    /\ \E id \in CallIds :
          store_call' = [method |-> "find_block", id |-> id,
                         ret |-> find_block(store_properties, id)]
    /\ UNCHANGED <<store_properties, inserted, gen_vars, flag_vars, rca_vars, lattice_vars, core_vars>>

FindExpr ==
    /\ Writable
    /\ \E id \in CallIds :
          store_call' = [method |-> "find_expr", id |-> id,
                         ret |-> find_expr(store_properties, id)]
    /\ UNCHANGED <<store_properties, inserted, gen_vars, flag_vars, rca_vars, lattice_vars, core_vars>>

FindItem ==
    /\ Writable
    /\ \E id \in CallIds :
          store_call' = [method |-> "find_item", id |-> id,
                         ret |-> find_item(store_properties, id)]
    /\ UNCHANGED <<store_properties, inserted, gen_vars, flag_vars, rca_vars, lattice_vars, core_vars>>

FindStmt ==
    /\ Writable
    /\ \E id \in CallIds :
          store_call' = [method |-> "find_stmt", id |-> id,
                         ret |-> find_stmt(store_properties, id)]
    /\ UNCHANGED <<store_properties, inserted, gen_vars, flag_vars, rca_vars, lattice_vars, core_vars>>

GetBlock ==
    /\ Writable
    /\ \E id \in CallIds :
          store_call' = [method |-> "get_block", id |-> id,
                         ret |-> get_block(store_properties, id)]
    /\ UNCHANGED <<store_properties, inserted, gen_vars, flag_vars, rca_vars, lattice_vars, core_vars>>

GetExpr ==
    /\ Writable
    /\ \E id \in CallIds :
          store_call' = [method |-> "get_expr", id |-> id,
                         ret |-> get_expr(store_properties, id)]
    /\ UNCHANGED <<store_properties, inserted, gen_vars, flag_vars, rca_vars, lattice_vars, core_vars>>

GetItem ==
    /\ Writable
    /\ \E id \in CallIds :
          store_call' = [method |-> "get_item", id |-> id,
                         ret |-> get_item(store_properties, id)]
    /\ UNCHANGED <<store_properties, inserted, gen_vars, flag_vars, rca_vars, lattice_vars, core_vars>>

GetStmt ==
    /\ Writable
    /\ \E id \in CallIds :
          store_call' = [method |-> "get_stmt", id |-> id,
                         ret |-> get_stmt(store_properties, id)]
    /\ UNCHANGED <<store_properties, inserted, gen_vars, flag_vars, rca_vars, lattice_vars, core_vars>>

NextStore ==
    \/ InsertBlock
    \/ InsertExpr
    \/ InsertItem
    \/ InsertStmt
    \/ Clear
    \/ FindBlock
    \/ FindExpr
    \/ FindItem
    \/ FindStmt
    \/ GetBlock
    \/ GetExpr
    \/ GetItem
    \/ GetStmt

SpecStore == InitStore /\ [][NextStore]_vars

\* The map a lookup method reads, and the entry `inserted` holds for a lookup.
MapOf(method) ==
    CASE method \in {"find_block", "get_block"} -> "blocks"
      [] method \in {"find_expr", "get_expr"} -> "exprs"
      [] method \in {"find_item", "get_item"} -> "items"
      [] method \in {"find_stmt", "get_stmt"} -> "stmts"
FindMethods == {"find_block", "find_expr", "find_item", "find_stmt"}
GetMethods == {"get_block", "get_expr", "get_item", "get_stmt"}
LookedUp == Slot(MapOf(store_call.method), store_call.id)

(***************************************************************************)
(* C18. Lookup contract: after any inserts and clears on the packages of   *)
(* the store, find_block, find_expr, find_item and find_stmt at an ID of   *)
(* one of these packages return the value last inserted at the ID since    *)
(* the last clear of its package, and None if there is none; get_block,    *)
(* get_expr, get_item and get_stmt return that value when there is one and *)
(* abort when there is none.                                               *)
(***************************************************************************)
InStore(id) == id.package \in DOMAIN store_properties.packages
C18_LookupContract ==
    /\ (store_call.method \in FindMethods /\ InStore(store_call.id)) =>
           store_call.ret = IF LookedUp \in DOMAIN inserted
                            THEN Some(inserted[LookedUp]) ELSE None
    /\ (store_call.method \in GetMethods /\ InStore(store_call.id)) =>
           IF LookedUp \in DOMAIN inserted
           THEN store_call.ret = inserted[LookedUp]
           ELSE IsPanic(store_call.ret)
\* find_expr returned the value inserted at an ID whose statement, in the same
\* package and with the same number, holds another value.
C18_Witness ==
    /\ store_call.method = "find_expr"
    /\ store_call.ret # None
    /\ Slot("stmts", store_call.id) \in DOMAIN inserted
    /\ inserted[Slot("stmts", store_call.id)] # store_call.ret.value
\* get_item aborted at an ID whose block has an entry.
C18_WitnessAbort ==
    /\ store_call.method = "get_item"
    /\ IsPanic(store_call.ret)
    /\ Slot("blocks", store_call.id) \in DOMAIN inserted

(***************************************************************************)
(* C19. clear on package p empties the four maps of p in one step, keeps p *)
(* in the store (get(p) succeeds, find_* on the IDs of p returns None) and *)
(* leaves the entries of every other package as they were.                 *)
(***************************************************************************)
C19_ClearStep ==
    store_call'.method = "clear" =>
        LET p == store_call'.package
        IN  /\ ~IsPanic(PackageStoreComputeProperties_get(store_properties', p))
            /\ PackageStoreComputeProperties_get(store_properties', p) =
                   PackageComputeProperties_default
            /\ \A id \in StoreIds :
                   id.package = p =>
                       /\ find_block(store_properties', id) = None
                       /\ find_expr(store_properties', id) = None
                       /\ find_item(store_properties', id) = None
                       /\ find_stmt(store_properties', id) = None
            /\ DOMAIN store_properties'.packages = DOMAIN store_properties.packages
            /\ \A q \in DOMAIN store_properties.packages :
                   q # p => store_properties'.packages[q] = store_properties.packages[q]
C19_ClearFrame == [][C19_ClearStep]_vars
\* A package that held two entries has been cleared.
C19_Witness ==
    /\ store_call.method = "clear"
    /\ store_call.entries = 2
    /\ store_properties.packages[store_call.package] = PackageComputeProperties_default
\* A package that held an entry has been cleared while the other package keeps one.
C19_WitnessOther ==
    /\ store_call.method = "clear"
    /\ store_call.entries = 1
    /\ \E slot \in DOMAIN inserted : slot.package # store_call.package

(***************************************************************************)
(* SpecRca: the analyzer runs over a package store whose open package is   *)
(* edited between analyses.                                                *)
(***************************************************************************)
InitRca ==
    /\ RcaInit
    /\ LatticeInit
    /\ StoreInit
    /\ CoreInit
    /\ generator_set = ApplicationGeneratorSet(Classical, <<>>)
    /\ args_value_kinds = <<>>
    /\ application = NoApplication
    /\ features = {}
    /\ flags_call = NoFlagsCall

\* The analyzer state when an analysis of the given packages starts: nothing
\* outside them is analyzed again.
AnalyzerStart(store, packages) ==
    [phase |-> "cyclic", packages |-> packages,
     work |-> UNION { ItemsOf(store, p) \cup TopLevelStmts(store, p) : p \in packages },
     stack |-> <<>>,
     analyzed |-> UNION { ItemsOf(store, p) : p \in (DOMAIN store) \ packages }]

\* The properties an analysis of one package starts from: the package's entries
\* cleared, then scaffolded.
PackageStart(store, properties, package) ==
    ScaffoldingStmts(
        Scaffolding(clear_package(properties, package), ItemsOf(store, package)),
        TopLevelStmts(store, package))

\* The compute properties of the packages an analysis of `package` must not touch.
Frame(properties, package) ==
    [q \in (DOMAIN properties.packages) \ {package} |-> properties.packages[q]]

\* `Analyzer::init(&fir_store).analyze_all()`: start of a whole-store analysis.
analyze_all ==
    /\ analyzer.phase = "idle"
    /\ compute_properties' =
           Some(ScaffoldingStmts(Scaffolding(Analyzer_init(fir_store), AllItems(fir_store)),
                                 AllTopLevelStmts(fir_store)))
    /\ analyzer' = AnalyzerStart(fir_store, DOMAIN fir_store)
    /\ history' = [prior |-> compute_properties, prior_by |-> history.last_by,
                   frame |-> <<>>, last_by |-> "analyze_all"]
    /\ UNCHANGED <<fir_store, gen_vars, flag_vars, lattice_vars, store_vars, core_vars>>

\* Clear one package of the previous result, `init_with_compute_properties`,
\* `analyze_package`: start of the re-analysis of one package.  Without a
\* previous result the caller aborts.
analyze_package ==
    /\ analyzer.phase = "idle"
    /\ compute_properties # None
    /\ \E package_id \in DOMAIN fir_store :
        /\ compute_properties' =
               Some(PackageStart(fir_store, compute_properties.value, package_id))
        /\ analyzer' = AnalyzerStart(fir_store, {package_id})
        /\ history' = [prior |-> compute_properties, prior_by |-> history.last_by,
                       frame |-> Frame(compute_properties.value, package_id),
                       last_by |-> "analyze_package"]
    /\ UNCHANGED <<fir_store, gen_vars, flag_vars, lattice_vars, store_vars, core_vars>>

\* CompilationContext::update: the open package's source changes, the package is
\* lowered again, its entries are cleared and it is analyzed again.
update ==
    /\ analyzer.phase = "idle"
    /\ compute_properties # None
    /\ \E package \in Edits(fir_store[OpenPackage]) :
        /\ fir_store' = [fir_store EXCEPT ![OpenPackage] = package]
        /\ compute_properties' =
               Some(PackageStart(fir_store', compute_properties.value, OpenPackage))
        /\ analyzer' = AnalyzerStart(fir_store', {OpenPackage})
        /\ history' = [prior |-> None, prior_by |-> "none",
                       frame |-> Frame(compute_properties.value, OpenPackage),
                       last_by |-> "update"]
    /\ UNCHANGED <<gen_vars, flag_vars, lattice_vars, store_vars, core_vars>>

\* The cyclic-callables pass: cycle detection over the packages under analysis,
\* then the override of every callable found.
CyclicPass ==
    /\ analyzer.phase = "cyclic"
    /\ LET cyclic == CyclicCallables(fir_store, analyzer.packages)
       IN  /\ compute_properties' =
                  Some(OverrideCyclic(fir_store, compute_properties.value, cyclic))
           /\ analyzer' = [analyzer EXCEPT !.phase = "core",
                                           !.analyzed = @ \cup cyclic]
    /\ UNCHANGED <<fir_store, history, gen_vars, flag_vars, lattice_vars, store_vars, core_vars>>

\* The core pass takes the next item, of the first package in dependency order
\* that has one left; an item already analyzed is skipped.
CoreNextItem ==
    /\ analyzer.phase = "core"
    /\ analyzer.stack = <<>>
    /\ \E id \in analyzer.work \cap AllItems(fir_store) :
        /\ \A other \in analyzer.work : id.package <= other.package
        /\ analyzer' = [analyzer EXCEPT
               !.work = @ \ {id},
               !.stack = IF id \in analyzer.analyzed THEN <<>> ELSE <<id>>]
    /\ UNCHANGED <<fir_store, compute_properties, history, gen_vars, flag_vars, lattice_vars, store_vars, core_vars>>

\* The core pass reaches a call to a callable that is not analyzed and analyzes
\* the callee first.  Recursion deeper than the number of callables never
\* returns: the analysis aborts.
CoreDescend ==
    /\ analyzer.phase = "core"
    /\ analyzer.stack # <<>>
    /\ LET id == analyzer.stack[Len(analyzer.stack)]
           callee == Decl(fir_store, id).callee
       IN  /\ callee # NoCallee
           /\ ~CalleeAnalyzed(analyzer.analyzed, callee)
           /\ analyzer' =
                  IF Len(analyzer.stack) >= Cardinality(AllItems(fir_store))
                  THEN [analyzer EXCEPT !.phase = "aborted"]
                  ELSE [analyzer EXCEPT !.stack = Append(@, callee)]
    /\ UNCHANGED <<fir_store, compute_properties, history, gen_vars, flag_vars, lattice_vars, store_vars, core_vars>>

\* The core pass finishes the callable on top of the stack: its generator set is
\* stored and it counts as analyzed.
CoreAnalyzeCallable ==
    /\ analyzer.phase = "core"
    /\ analyzer.stack # <<>>
    /\ LET id == analyzer.stack[Len(analyzer.stack)]
           callee == Decl(fir_store, id).callee
       IN  /\ callee = NoCallee \/ CalleeAnalyzed(analyzer.analyzed, callee)
           /\ compute_properties' =
                  Some(InsertCallable(compute_properties.value, id,
                           CoreGeneratorSet(fir_store, compute_properties.value, id)))
           /\ analyzer' = [analyzer EXCEPT
                  !.stack = SubSeq(@, 1, Len(@) - 1),
                  !.analyzed = @ \cup {id}]
    /\ UNCHANGED <<fir_store, history, gen_vars, flag_vars, lattice_vars, store_vars, core_vars>>

\* The core pass analyzes a top-level statement of a package once it has taken
\* every item of the package, the callable the statement calls among them.
CoreTopLevelStmt ==
    /\ analyzer.phase = "core"
    /\ analyzer.stack = <<>>
    /\ \E id \in analyzer.work \cap AllTopLevelStmts(fir_store) :
        /\ \A other \in analyzer.work :
               /\ id.package <= other.package
               /\ other.package = id.package => other \notin AllItems(fir_store)
        /\ compute_properties' =
               Some(InsertTopLevelStmt(compute_properties.value, id,
                        TopLevelGeneratorSet(fir_store, compute_properties.value, id)))
        /\ analyzer' = [analyzer EXCEPT !.work = @ \ {id}]
    /\ UNCHANGED <<fir_store, history, gen_vars, flag_vars, lattice_vars, store_vars, core_vars>>

\* The core pass has no item left: the analysis returns the compute properties.
CoreFinish ==
    /\ analyzer.phase = "core"
    /\ analyzer.stack = <<>>
    /\ analyzer.work = {}
    /\ analyzer' = AnalyzerIdle
    /\ UNCHANGED <<fir_store, compute_properties, history, gen_vars, flag_vars, lattice_vars, store_vars, core_vars>>

AnalyzerStep ==
    \/ CyclicPass
    \/ CoreNextItem
    \/ CoreDescend
    \/ CoreAnalyzeCallable
    \/ CoreTopLevelStmt
    \/ CoreFinish

NextRca ==
    \/ analyze_all
    \/ analyze_package
    \/ update
    \/ CyclicPass
    \/ CoreNextItem
    \/ CoreDescend
    \/ CoreAnalyzeCallable
    \/ CoreTopLevelStmt
    \/ CoreFinish

SpecRca == InitRca /\ [][NextRca]_vars

\* `history` records, for the claims below: the result the previous analysis
\* returned if the store has not changed since (prior) and how it was produced
\* (prior_by), the properties of the packages the running or last analysis was
\* not asked to analyze as they were when it started (frame), and how the
\* running or last analysis was started (last_by).
Finished == analyzer.phase = "idle" /\ compute_properties # None
SinglePackage == {"analyze_package", "update"}

(***************************************************************************)
(* C5  Whole/part equivalence: on one package store, a whole-store         *)
(* analysis and the re-analysis of one package (its entries cleared, the   *)
(* rest of a previous result kept) return the same compute properties for  *)
(* every package, whichever of the two ran first.                          *)
(***************************************************************************)
C5_WholePartEquivalence ==
    ( /\ Finished
      /\ history.prior # None
      /\ \/ history.last_by = "analyze_all" /\ history.prior_by \in SinglePackage
         \/ history.last_by = "analyze_package" /\ history.prior_by = "analyze_all" )
    => compute_properties = history.prior

\* A whole-store analysis has finished on a store whose open package was last
\* analyzed alone after an edit, and that has a callable calling another one.
C5_Witness ==
    /\ Finished
    /\ history.last_by = "analyze_all"
    /\ history.prior_by = "update"
    /\ history.prior = compute_properties
    /\ Len(fir_store[OpenPackage]) = 2
    /\ fir_store[OpenPackage][2].callee = StoreItemId(OpenPackage, 1)
    /\ fir_store[OpenPackage][1].callee = StoreItemId(LibraryPackage, 1)
    /\ DOMAIN compute_properties.value.packages[OpenPackage].items = {1, 2}

(***************************************************************************)
(* C6  Idempotence: a whole-store analysis run again on the same store     *)
(* returns equal compute properties (items, blocks, statements and         *)
(* expressions of every package), and so does the re-analysis of one       *)
(* package run again on an unchanged store.                                *)
(***************************************************************************)
C6_Idempotence ==
    ( /\ Finished
      /\ history.prior # None
      /\ \/ history.last_by = "analyze_all" /\ history.prior_by = "analyze_all"
         \/ history.last_by = "analyze_package" /\ history.prior_by \in SinglePackage )
    => compute_properties = history.prior

\* A whole-store analysis has finished a second time on a store in which the
\* order the callables are taken in matters to what the core pass must descend into.
C6_Witness ==
    /\ Finished
    /\ history.last_by = "analyze_all"
    /\ history.prior_by = "analyze_all"
    /\ history.prior = compute_properties
    /\ Len(fir_store[OpenPackage]) = 2
    /\ fir_store[OpenPackage][1].callee = StoreItemId(OpenPackage, 2)
    /\ fir_store[OpenPackage][2].callee = StoreItemId(LibraryPackage, 1)

\* The open package has been re-analyzed a second time on an unchanged store.
C6_WitnessPackage ==
    /\ Finished
    /\ history.last_by = "analyze_package"
    /\ history.prior_by = "analyze_package"
    /\ DOMAIN history.frame = {LibraryPackage}
    /\ history.prior = compute_properties
    /\ Len(fir_store[OpenPackage]) = 2

(***************************************************************************)
(* C7  Frame of a re-analysis: while and after one package is analyzed     *)
(* again, the items, blocks, statements and expressions of every other     *)
(* package are what they were in the previous result.                      *)
(***************************************************************************)
C7_OtherPackagesUntouched ==
    compute_properties # None =>
        \A q \in DOMAIN history.frame :
            compute_properties.value.packages[q] = history.frame[q]

\* The open package, which calls into the library, has been analyzed again and
\* the library's entries are the previous ones.
C7_Witness ==
    /\ Finished
    /\ history.last_by \in SinglePackage
    /\ DOMAIN history.frame = {LibraryPackage}
    /\ DOMAIN history.frame[LibraryPackage].items = {1}
    /\ compute_properties.value.packages[LibraryPackage] = history.frame[LibraryPackage]
    /\ Len(fir_store[OpenPackage]) = 2
    /\ fir_store[OpenPackage][1].callee = StoreItemId(LibraryPackage, 1)
    /\ DOMAIN compute_properties.value.packages[OpenPackage].exprs = {1, 2, 3}

\* The library has been analyzed again and the open package's entries are the
\* previous ones.
C7_WitnessLibrary ==
    /\ Finished
    /\ history.last_by = "analyze_package"
    /\ DOMAIN history.frame = {OpenPackage}
    /\ DOMAIN history.frame[OpenPackage].items = {1, 2}
    /\ compute_properties.value.packages[OpenPackage] = history.frame[OpenPackage]

(***************************************************************************)
(* C8  Termination: no analysis recurses without end and every step of an  *)
(* analysis brings it nearer to its return (Remaining, a natural number,   *)
(* decreases and is zero only when the analyzer has returned), on stores   *)
(* with direct and mutual recursion too.  When the core pass runs, every   *)
(* cyclic callable of the packages under analysis holds its conservative   *)
(* generator set; the core pass never has a cyclic callable, an analyzed   *)
(* callable or the same callable twice in its recursion; and a finished    *)
(* analysis has given every callable of the store a generator set with one *)
(* application per parameter.                                              *)
(***************************************************************************)
C8_CyclicSeeded ==
    analyzer.phase = "core" =>
        \A id \in AllItems(fir_store) :
            (id.package \in analyzer.packages /\ IsCyclic(fir_store, id)) =>
                /\ id \in analyzer.analyzed
                /\ find_item(compute_properties.value, id) =
                       Some(Callable(CyclicGeneratorSet(Decl(fir_store, id)), None, None, None))
C8_NoRecursionIntoCyclic ==
    \A i \in 1..Len(analyzer.stack) :
        /\ ~IsCyclic(fir_store, analyzer.stack[i])
        /\ analyzer.stack[i] \notin analyzer.analyzed
        /\ \A j \in 1..Len(analyzer.stack) : analyzer.stack[j] = analyzer.stack[i] => j = i
C8_EveryNodeVisited ==
    Finished =>
        \A id \in AllItems(fir_store) :
            /\ find_item(compute_properties.value, id) # None
            /\ Len(find_item(compute_properties.value, id).value.body.dynamic_param_applications)
                   = Decl(fir_store, id).arity
\* What is left of a running analysis: the cyclic pass and the whole core pass,
\* or the callables the core pass has not analyzed (twice), the items it has not
\* taken, less the depth of its recursion.
Remaining ==
    LET unanalyzed == Cardinality(AllItems(fir_store) \ analyzer.analyzed)
    IN  CASE analyzer.phase = "cyclic" ->
                2 * Cardinality(AllItems(fir_store)) + Cardinality(analyzer.work) + 2
          [] analyzer.phase = "core" ->
                2 * unanalyzed + Cardinality(analyzer.work) - Len(analyzer.stack) + 1
          [] OTHER -> 0
C8_AnalysisTerminates ==
    /\ [](C8_CyclicSeeded /\ C8_NoRecursionIntoCyclic /\ C8_EveryNodeVisited)
    /\ [](analyzer.phase # "aborted" /\ Remaining \in Nat)
    /\ [](Remaining = 0 <=> analyzer.phase = "idle")
    /\ [][AnalyzerStep => Remaining' < Remaining]_vars

\* A whole-store analysis has returned on a store whose open package holds two
\* mutually recursive callables.
C8_Witness ==
    /\ Finished
    /\ history.last_by = "analyze_all"
    /\ Len(fir_store[OpenPackage]) = 2
    /\ fir_store[OpenPackage][1].callee = StoreItemId(OpenPackage, 2)
    /\ fir_store[OpenPackage][2].callee = StoreItemId(OpenPackage, 1)
    /\ IsCyclic(fir_store, StoreItemId(OpenPackage, 1))
    /\ IsCyclic(fir_store, StoreItemId(OpenPackage, 2))
    /\ find_item(compute_properties.value, StoreItemId(OpenPackage, 2)) # None

\* The core pass has descended into a callee not yet analyzed.
C8_WitnessDescent ==
    /\ analyzer.phase = "core"
    /\ Len(analyzer.stack) = 2
    /\ Decl(fir_store, analyzer.stack[1]).callee = analyzer.stack[2]

(***************************************************************************)
(* C20  Arity: in every result an analysis returns, the body generator set *)
(* of each callable has exactly as many dynamic_param_applications as the  *)
(* callable has parameters, the same holds for its adj, ctl and ctl_adj    *)
(* generator sets when present, and the generator set of every top-level   *)
(* statement and of its expression has none.                               *)
(***************************************************************************)
Specializations(callable) ==
    {callable.body} \cup { option.value : option \in
                               {callable.adj, callable.ctl, callable.ctl_adj} \ {None} }
C20_WitnessUpdate ==
    /\ Finished
    /\ history.last_by = "update"
    /\ Len(fir_store[OpenPackage]) = 1
    /\ fir_store[OpenPackage][1].kind = "Function"
    /\ IsCyclic(fir_store, StoreItemId(OpenPackage, 1))
    /\ AllTopLevelStmts(fir_store) = {StoreItemId(OpenPackage, 2)}
    /\ get_stmt(compute_properties.value, StoreItemId(OpenPackage, 2))
           = ApplicationGeneratorSet(Classical, <<>>)

(***************************************************************************)
(* C25  ComputeKind with aggregate is a join-semilattice with Classical as *)
(* bottom: over the compute kinds whose value kinds share one variant,     *)
(* aggregate is idempotent, commutative and associative, and the aggregate *)
(* of two kinds is at or above both in the order where Classical is below  *)
(* everything and Quantum(F, v) is below Quantum(F', v') when F is a       *)
(* subset of F' and v is slot-wise below v'.                               *)
(***************************************************************************)
\* Two compute kinds that can be aggregated: not both Quantum, or of one variant.
OneVariant(x, y) ==
    (IsQuantum(x) /\ IsQuantum(y)) => SameVariant(x.value_kind, y.value_kind)
C25_JoinSemilattice ==
    ( /\ lattice_call.method = "ComputeKind::aggregate"
      /\ OneVariant(operands.self, operands.value) )
    => /\ ~IsPanic(lattice_call.ret)
       /\ lattice_call.ret \in LatticeComputeKinds
       /\ operands.self = operands.value => lattice_call.ret = operands.self
       /\ lattice_call.ret = ComputeKind_aggregate(operands.value, operands.self)
       /\ ComputeKind_leq(operands.self, lattice_call.ret)
       /\ ComputeKind_leq(operands.value, lattice_call.ret)
       /\ ComputeKind_leq(Classical, lattice_call.ret)
       /\ ComputeKind_aggregate(Classical, lattice_call.ret) = lattice_call.ret
       /\ \A third \in LatticeComputeKinds :
              (OneVariant(operands.self, third) /\ OneVariant(operands.value, third)) =>
                  /\ ComputeKind_aggregate(lattice_call.ret, third) =
                         ComputeKind_aggregate(operands.self,
                             ComputeKind_aggregate(operands.value, third))
                  \* least among the upper bounds
                  /\ ( /\ ComputeKind_leq(operands.self, third)
                       /\ ComputeKind_leq(operands.value, third) )
                     => ComputeKind_leq(lattice_call.ret, third)

\* Two incomparable Quantum array kinds have been aggregated: the result is
\* strictly above both.
C25_Witness ==
    /\ lattice_call.method = "ComputeKind::aggregate"
    /\ operands.self = Quantum({UseOfDynamicBool}, Array(Static, Dynamic))
    /\ operands.value = Quantum({UseOfDynamicInt}, Array(Dynamic, Static))
    /\ ~ComputeKind_leq(operands.self, operands.value)
    /\ ~ComputeKind_leq(operands.value, operands.self)
    /\ lattice_call.ret # operands.self
    /\ lattice_call.ret # operands.value
    /\ ComputeKind_leq(operands.self, lattice_call.ret)

\* A Quantum kind without features has been aggregated with itself.
C25_WitnessIdempotent ==
    /\ lattice_call.method = "ComputeKind::aggregate"
    /\ operands.self = Quantum({}, Element(Static))
    /\ operands.value = operands.self
    /\ lattice_call.ret = operands.self

(***************************************************************************)
(* C26  In generate_application_compute_kind with matching arity the two   *)
(* checks "parameter application was expected to be an element variant"    *)
(* and "... an array variant" never fire, for any generator set and any    *)
(* argument value kinds: the mapped value kind has the variant of the      *)
(* parameter application.  The call fails only in ComputeKind::aggregate,  *)
(* and does so exactly when two of the Quantum kinds it aggregates (the    *)
(* inherent kind and the selected deltas) have value kinds of different    *)
(* variants.                                                               *)
(***************************************************************************)
VariantCheckAborts ==
    { Panic("parameter application was expected to be an element variant"),
      Panic("parameter application was expected to be an array variant") }
\* The Quantum kinds the call aggregates: the inherent kind and the delta each
\* argument selects.
RECURSIVE AggregatedQuantumKinds(_, _, _)
AggregatedQuantumKinds(g, args, i) ==
    IF i > Len(args) THEN { k \in {g.inherent} : IsQuantum(k) }
    ELSE LET delta == C1_Delta(g.dynamic_param_applications[i], args[i])
         IN  { delta[j] : j \in { n \in DOMAIN delta : IsQuantum(delta[n]) } }
             \cup AggregatedQuantumKinds(g, args, i + 1)
VariantsMeet(g, args) ==
    LET variants == { k.value_kind.variant : k \in AggregatedQuantumKinds(g, args, 1) }
    IN  "Element" \in variants /\ "Array" \in variants
C26_VariantChecksNeverFire ==
    (application.called /\ ArityMatches) =>
        /\ \A i \in 1..Len(args_value_kinds) :
               mapped_value_kind(args_value_kinds[i],
                                 generator_set.dynamic_param_applications[i]).variant
                   = generator_set.dynamic_param_applications[i].variant
        /\ application.compute_kind \notin VariantCheckAborts
        /\ IsPanic(application.compute_kind) <=> VariantsMeet(generator_set, args_value_kinds)
        /\ IsPanic(application.compute_kind) =>
               application.compute_kind =
                   Panic("only value kinds of the same variant can be aggregated")

\* A call whose arguments are both of the other variant than their parameters
\* has returned: an Element(Dynamic) argument for an Array parameter and a
\* dynamic array for an Element parameter.
C26_Witness ==
    /\ Returned /\ ArityMatches
    /\ Len(args_value_kinds) = 2
    /\ generator_set.dynamic_param_applications[1].variant = "Array"
    /\ args_value_kinds[1] = Element(Dynamic)
    /\ generator_set.dynamic_param_applications[2].variant = "Element"
    /\ args_value_kinds[2] = Array(Static, Dynamic)
    /\ IsQuantum(application.compute_kind)

\* A call has failed in aggregate: an Element inherent kind met an Array delta.
C26_WitnessAggregateAbort ==
    /\ application.called /\ ArityMatches
    /\ generator_set.inherent = Quantum({UseOfDynamicBool}, Element(Dynamic))
    /\ Len(args_value_kinds) = 1
    /\ generator_set.dynamic_param_applications[1] = ParamApplication_Element(
           Quantum({UseOfDynamicallySizedArray}, Array(Static, Dynamic)))
    /\ args_value_kinds[1] = Array(Dynamic, Dynamic)
    /\ application.compute_kind =
           Panic("only value kinds of the same variant can be aggregated")

(***************************************************************************)
(* C27  Projection preserves dynamic-ness: for every source value kind and *)
(* every target, after project_onto_variant the target has a Dynamic       *)
(* component if and only if the source has one.  So in the specialization  *)
(* of a generator set an argument selects a delta if and only if it is     *)
(* dynamic, whatever its variant and the parameter's, and an               *)
(* Element(Dynamic) argument for an Array parameter selects                *)
(* dynamic_content_dynamic_size.                                           *)
(***************************************************************************)
SomeComponentDynamic(value_kind) ==
    IF value_kind.variant = "Array"
    THEN Dynamic \in {value_kind.content, value_kind.size}
    ELSE value_kind.runtime_kind = Dynamic
\* Parameter applications whose deltas tell which one was selected.
ElementProbe == ParamApplication_Element(Quantum({UseOfDynamicBool}, Element(Static)))
ArrayProbe ==
    ParamApplication_Array(Quantum({UseOfDynamicInt}, Element(Static)),
                           Quantum({UseOfDynamicPauli}, Element(Static)),
                           Quantum({UseOfDynamicRange}, Element(Static)))
ProbeOf(variant) == IF variant = "Array" THEN ArrayProbe ELSE ElementProbe
Specialized(probe, arg) ==
    generate_application_compute_kind(ApplicationGeneratorSet(Classical, <<probe>>), <<arg>>)
C27_ProjectionPreservesDynamic ==
    lattice_call.method = "ValueKind::project_onto_variant" =>
        /\ SomeComponentDynamic(operands.variant) <=> SomeComponentDynamic(operands.value_kind)
        /\ is_dynamic(operands.variant) <=> is_dynamic(operands.value_kind)
        /\ operands.variant.variant = lattice_call.variant_before.variant
        \* the projection the specialization makes, onto an all-static target
        /\ (lattice_call.projections = 1 /\ AllStatic(lattice_call.variant_before)) =>
               /\ mapped_value_kind(operands.value_kind, ProbeOf(operands.variant.variant))
                      = operands.variant
               /\ Specialized(ProbeOf(operands.variant.variant), operands.value_kind) = Classical
                      <=> ~SomeComponentDynamic(operands.value_kind)
               /\ (operands.variant.variant = "Array" /\ operands.value_kind = Element(Dynamic)) =>
                      Specialized(ArrayProbe, operands.value_kind)
                          = ArrayProbe.dynamic_content_dynamic_size

\* An array dynamic in its size alone has been projected onto an Element target.
C27_Witness ==
    /\ lattice_call.method = "ValueKind::project_onto_variant"
    /\ lattice_call.projections = 1
    /\ operands.value_kind = Array(Static, Dynamic)
    /\ lattice_call.variant_before = Element(Static)
    /\ operands.variant = Element(Dynamic)
    /\ Specialized(ElementProbe, operands.value_kind) = ElementProbe.compute_kind

\* Element(Dynamic) has been projected onto an all-static Array target.
C27_WitnessElementToArray ==
    /\ lattice_call.method = "ValueKind::project_onto_variant"
    /\ lattice_call.projections = 1
    /\ operands.value_kind = Element(Dynamic)
    /\ lattice_call.variant_before = Array(Static, Static)
    /\ operands.variant = Array(Dynamic, Dynamic)

\* A static source has been projected onto a dynamic target, which it overwrites.
C27_WitnessStaticSource ==
    /\ lattice_call.method = "ValueKind::project_onto_variant"
    /\ operands.value_kind = Element(Static)
    /\ lattice_call.variant_before = Array(Dynamic, Dynamic)
    /\ operands.variant = Array(Static, Static)

(***************************************************************************)
(* The loop of generate_application_compute_kind, iteration by iteration,  *)
(* on a generator set and an argument vector of the same length.  The      *)
(* pairs are visited in any order: the code's order is by index, and       *)
(* another order is the code's on the generator set and the arguments      *)
(* permuted alike.  `application` holds the loop's compute_kind, the       *)
(* indices visited, and whether the call has returned or aborted.          *)
(***************************************************************************)
\* Parameter applications of the loop: Element deltas that are Classical, of
\* Element and of Array value kind, and an Array parameter with distinct deltas.
LoopParamApplications ==
    { ParamApplication_Element(ck) : ck \in SampleComputeKinds } \cup
    { ParamApplication_Array(Classical,
                             Quantum({UseOfDynamicInt}, Element(Static)),
                             Quantum({UseOfDynamicPauli}, Element(Static))) }

InitLoop ==
    /\ \E inherent \in SampleComputeKinds, n \in 0..MaxParams :
          \E params \in [1..n -> LoopParamApplications], args \in [1..n -> ValueKind] :
              /\ generator_set = ApplicationGeneratorSet(inherent, params)
              /\ args_value_kinds = args
              /\ application = [called |-> FALSE, compute_kind |-> inherent,
                                aggregations |-> 0, visited |-> {}]
    /\ features = {}
    /\ flags_call = NoFlagsCall
    /\ RcaInit
    /\ LatticeInit
    /\ StoreInit
    /\ CoreInit

\* One iteration: the next pair is mapped and its delta aggregated; an abort
\* ends the call.
LoopIteration ==
    /\ ~application.called
    /\ \E i \in (1..Len(args_value_kinds)) \ application.visited :
          LET step == application_step(
                          [compute_kind |-> application.compute_kind,
                           aggregations |-> application.aggregations],
                          args_value_kinds[i], generator_set.dynamic_param_applications[i])
          IN  application' = [called |-> IsPanic(step.compute_kind),
                              compute_kind |-> step.compute_kind,
                              aggregations |-> step.aggregations,
                              visited |-> application.visited \cup {i}]
    /\ UNCHANGED <<generator_set, args_value_kinds, flag_vars, rca_vars, lattice_vars, store_vars, core_vars>>

\* The loop has visited every pair: the call returns compute_kind.
LoopReturn ==
    /\ ~application.called
    /\ application.visited = 1..Len(args_value_kinds)
    /\ application' = [application EXCEPT !.called = TRUE]
    /\ UNCHANGED <<generator_set, args_value_kinds, flag_vars, rca_vars, lattice_vars, store_vars, core_vars>>

NextLoop == LoopIteration \/ LoopReturn

SpecLoop == InitLoop /\ [][NextLoop]_vars

(***************************************************************************)
(* C28  Specialization only adds to the inherent kind: whenever            *)
(* generate_application_compute_kind returns, the features of the result   *)
(* are exactly the union of the inherent features and of the features of   *)
(* the deltas the dynamic arguments select (so they include the inherent   *)
(* features), the result is Classical if and only if the inherent kind and *)
(* every selected delta are Classical, and the features are the same in    *)
(* whichever order the parameters are visited.                             *)
(***************************************************************************)
FeaturesOf(compute_kind) ==
    IF IsQuantum(compute_kind) THEN compute_kind.runtime_features ELSE {}
\* The inherent kind and the deltas the arguments select, Classical ones too.
SelectedKinds(g, args) ==
    {g.inherent} \cup
    UNION { { C1_Delta(g.dynamic_param_applications[i], args[i])[j] :
                  j \in DOMAIN C1_Delta(g.dynamic_param_applications[i], args[i]) } :
            i \in 1..Len(args) }
C28_OnlyAddsToInherent ==
    ( /\ application.called
      /\ ~IsPanic(application.compute_kind) )
    => /\ application.visited = 1..Len(args_value_kinds)
       /\ FeaturesOf(application.compute_kind) =
              UNION { FeaturesOf(k) : k \in SelectedKinds(generator_set, args_value_kinds) }
       /\ FeaturesOf(generator_set.inherent) \subseteq FeaturesOf(application.compute_kind)
       /\ IsClassical(application.compute_kind) <=>
              \A k \in SelectedKinds(generator_set, args_value_kinds) : IsClassical(k)
       \* the visit in index order returns too, with the same features
       /\ ~IsPanic(generate_application_compute_kind(generator_set, args_value_kinds))
       /\ FeaturesOf(generate_application_compute_kind(generator_set, args_value_kinds))
              = FeaturesOf(application.compute_kind)

\* A call on two parameters has returned after visiting the second before the
\* first, each dynamic argument having added the features of its delta to the
\* inherent ones.
C28_Witness ==
    /\ application.called
    /\ generator_set.inherent = Quantum({UseOfDynamicBool}, Element(Dynamic))
    /\ Len(args_value_kinds) = 2
    /\ generator_set.dynamic_param_applications[1].variant = "Array"
    /\ args_value_kinds = <<Array(Dynamic, Dynamic), Element(Static)>>
    /\ generator_set.dynamic_param_applications[2] = ParamApplication_Element(Classical)
    /\ application.compute_kind =
           Quantum({UseOfDynamicBool, UseOfDynamicPauli}, Element(Dynamic))

\* The second pair has been visited and the first has not.
C28_WitnessOrder ==
    /\ ~application.called
    /\ Len(args_value_kinds) = 2
    /\ application.visited = {2}
    /\ args_value_kinds = <<Element(Dynamic), Array(Static, Dynamic)>>
    /\ IsQuantum(application.compute_kind)
    /\ IsClassical(generator_set.inherent)

\* A Classical generator set whose dynamic arguments select Classical deltas
\* has returned Classical.
C28_WitnessClassical ==
    /\ application.called
    /\ generator_set.inherent = Classical
    /\ Len(args_value_kinds) = 2
    /\ generator_set.dynamic_param_applications[1] = ParamApplication_Element(Classical)
    /\ generator_set.dynamic_param_applications[2].variant = "Array"
    /\ args_value_kinds = <<Element(Dynamic), Array(Static, Dynamic)>>
    /\ application.compute_kind = Classical

(***************************************************************************)
(* C29  The store never creates a package implicitly and never reports a   *)
(* missing package as a missing entry: at a store ID whose package has no  *)
(* entry in PackageStoreComputeProperties, find_*, get_* and insert_* all  *)
(* abort with "package should exist"; find_* returns None only when the    *)
(* package has an entry and the local ID has none; and an insert_* that    *)
(* aborts leaves the store as it was.                                      *)
(***************************************************************************)
InsertMethods == {"insert_block", "insert_expr", "insert_item", "insert_stmt"}
CallMethods == FindMethods \cup GetMethods \cup InsertMethods
MapOfCall(method) ==
    CASE method \in {"find_block", "get_block", "insert_block"} -> "blocks"
      [] method \in {"find_expr", "get_expr", "insert_expr"} -> "exprs"
      [] method \in {"find_item", "get_item", "insert_item"} -> "items"
      [] method \in {"find_stmt", "get_stmt", "insert_stmt"} -> "stmts"
C29_NoImplicitPackage ==
    /\ ~IsPanic(store_properties)
    /\ DOMAIN store_properties.packages = Packages
    /\ \A slot \in DOMAIN inserted : slot.package \in Packages
    /\ store_call.method \in CallMethods =>
           /\ ~InStore(store_call.id) => store_call.ret = Panic("package should exist")
           /\ InStore(store_call.id) => store_call.ret # Panic("package should exist")
           /\ store_call.ret = None =>
                  /\ store_call.method \in FindMethods
                  /\ InStore(store_call.id)
                  /\ Slot(MapOfCall(store_call.method), store_call.id) \notin DOMAIN inserted
C29_AbortedInsert ==
    store_call'.method \in InsertMethods =>
        /\ ~InStore(store_call'.id)
        /\ store_properties' = store_properties
        /\ inserted' = inserted
C29_MissingPackageAborts == [](C29_NoImplicitPackage) /\ [][C29_AbortedInsert]_vars

\* find_item at an ID of a package without an entry has aborted, on a store
\* that holds an item with the same local ID in another package.
C29_Witness ==
    /\ store_call.method = "find_item"
    /\ store_call.id = StoreItemId(AbsentPackage, 1)
    /\ store_call.ret = Panic("package should exist")
    /\ Slot("items", StoreItemId(OpenPackage, 1)) \in DOMAIN inserted

\* insert_stmt into a package without an entry has aborted on a store with entries.
C29_WitnessInsert ==
    /\ store_call.method = "insert_stmt"
    /\ store_call.id.package = AbsentPackage
    /\ IsPanic(store_call.ret)
    /\ Cardinality(DOMAIN inserted) = 2
    /\ DOMAIN store_properties.packages = Packages

\* get_block at an ID of a package without an entry has aborted.
C29_WitnessGet ==
    /\ store_call.method = "get_block"
    /\ store_call.id.package = AbsentPackage
    /\ store_call.ret = Panic("package should exist")

\* find_expr has returned None for a package that has an entry.
C29_WitnessNone ==
    /\ store_call.method = "find_expr"
    /\ store_call.ret = None
    /\ InStore(store_call.id)
    /\ Slot("stmts", store_call.id) \in DOMAIN inserted

(***************************************************************************)
(* C30  Each insert_* changes exactly one entry: insert_block,             *)
(* insert_expr, insert_item and insert_stmt at store ID (p, i) replace or  *)
(* create entry i of the corresponding map of package p and leave every    *)
(* other entry of that map, the other three maps of p and all maps of      *)
(* every other package as they were; of two inserts at one ID only the     *)
(* second value is kept.                                                   *)
(***************************************************************************)
MapNames == {"blocks", "exprs", "items", "stmts"}
\* Every entry the store holds, by map, package and local ID.
Entries(properties) ==
    UNION { { [slot |-> Slot(map, StoreItemId(p, i)),
               value |-> properties.packages[p][map][i]] :
                  i \in DOMAIN properties.packages[p][map] } :
            map \in MapNames, p \in DOMAIN properties.packages }
\* A step in which an insert returned.
InsertReturned ==
    /\ Writable
    /\ store_call' = NoStoreCall
C30_InsertStep ==
    InsertReturned =>
        \E slot \in DOMAIN inserted' :
            /\ Entries(store_properties') =
                   { e \in Entries(store_properties) : e.slot # slot }
                       \cup {[slot |-> slot, value |-> inserted'[slot]]}
            /\ DOMAIN store_properties'.packages = DOMAIN store_properties.packages
C30_StoreHoldsLastInserted ==
    Entries(store_properties) =
        { [slot |-> slot, value |-> inserted[slot]] : slot \in DOMAIN inserted }
C30_InsertFrame == [](C30_StoreHoldsLastInserted) /\ [][C30_InsertStep]_vars

\* An expression has been inserted at an ID whose statement holds another value
\* and whose other package holds an entry with the same local ID.
C30_Witness ==
    /\ store_call = NoStoreCall
    /\ \E id \in StoreIds, other \in StoreIds :
          /\ other.package # id.package
          /\ other.item = id.item
          /\ find_expr(store_properties, id) # None
          /\ find_stmt(store_properties, id) = None
          /\ find_expr(store_properties, other) # None
          /\ find_expr(store_properties, other) # find_expr(store_properties, id)

\* The two entries the store holds are in two maps of one package, at one ID.
C30_WitnessMaps ==
    /\ store_call = NoStoreCall
    /\ DOMAIN inserted = {Slot("exprs", StoreItemId(OpenPackage, 2)),
                          Slot("stmts", StoreItemId(OpenPackage, 2))}
    /\ inserted[Slot("exprs", StoreItemId(OpenPackage, 2))]
           # inserted[Slot("stmts", StoreItemId(OpenPackage, 2))]

(***************************************************************************)
(* The core analyzer on one block: the top-level statements of a fragment, *)
(* or the body of an operation without parameters that returns Unit.  An   *)
(* expression is analysed operands first, so the walk keeps the analysed   *)
(* sub-expressions that wait for their operator.                           *)
(***************************************************************************)
\* Largest number of analysed sub-expressions that wait for their operator.
MaxNesting == 2
\* The types of the expressions the walk builds.
OperandTypes == {"Bool", "Int", "Double", "Result"}
\* The operators: an operator applies to two operands of one type.
BinOps == {"arithmetic", "comparison", "logical"}
BinOpAccepts(op, ty) ==
    CASE op = "arithmetic" -> ty \in {"Int", "Double"}
      [] op = "comparison" -> ty \in {"Int", "Double", "Result"}
      [] op = "logical" -> ty = "Bool"
BinOpType(op, ty) == IF op = "arithmetic" THEN ty ELSE "Bool"

\* The UseOfDynamic flag of a type; a measurement result has no flag of its own
\* and counts as the two-valued type it is compared into.
UseOfDynamic(ty) ==
    CASE ty = "Bool" -> UseOfDynamicBool
      [] ty = "Result" -> UseOfDynamicBool
      [] ty = "Int" -> UseOfDynamicInt
      [] ty = "Double" -> UseOfDynamicDouble

\* The intrinsic callables the expressions call: the measurement M, an operation
\* of one qubit, and a function of one Double such as Sin.
MeasurementDecl == CallableDecl("Operation", 1, NoCallee)
FunctionDecl == CallableDecl("Function", 1, NoCallee)

\* An analysed expression: its type, its compute kind, and whether it is built
\* only from literals, operators over such operands, calls of functions on such
\* arguments, and variables bound to such expressions; and whether it is an
\* operator or a call rather than a literal or a variable.
AnalyzedExpr(ty, compute_kind, classical, compound) ==
    [ty |-> ty, compute_kind |-> compute_kind, classical |-> classical, compound |-> compound]

\* ComputeKind::value_kind_or_default
value_kind_or_default(self, default) ==
    IF IsQuantum(self) THEN self.value_kind ELSE default

\* ComputeKind::is_dynamic
ComputeKind_is_dynamic(self) ==
    IsQuantum(self) /\ is_dynamic(self.value_kind)

\* Literals: Classical.
LitComputeKind == Classical

\* Arithmetic, logical and comparison operators: the aggregate of the operands'
\* compute kinds, and with a dynamic operand the UseOfDynamic flag of the
\* operand type on a dynamic element.
BinOpComputeKind(ty, lhs, rhs) ==
    LET aggregated == ComputeKind_aggregate(lhs, rhs)
    IN  IF ComputeKind_is_dynamic(aggregated)
        THEN Quantum(aggregated.runtime_features \cup {UseOfDynamic(ty)}, Element(Dynamic))
        ELSE aggregated

\* The conditional operator `c ? a | b` on two literals of the given type: an
\* operator of three operands, of which the condition alone can be dynamic.
CondComputeKind(ty, condition) ==
    BinOpComputeKind(ty, BinOpComputeKind(ty, condition, LitComputeKind), LitComputeKind)

\* Calls of an intrinsic callable of one parameter: its generator set specialized
\* with the argument's value kind, and the features of evaluating the argument.
IntrinsicCallComputeKind(decl, arg) ==
    aggregate_runtime_features(
        generate_application_compute_kind(IntrinsicGeneratorSet(decl), <<value_kind_or_default(arg, Element(Static))>>),
        arg, Element(Static))

\* Variables: what the binder was bound to.  A qubit is bound to a static
\* quantum element, a register of literal size to a static quantum array.
QubitBinding == AnalyzedExpr("Qubit", Quantum({}, Element(Static)), FALSE, FALSE)
RegisterBinding == AnalyzedExpr("Qubit[]", Quantum({}, Array(Static, Static)), FALSE, FALSE)

\* Qubit allocation statements: Classical, and DynamicQubitAllocation under a
\* dynamic scope.
AllocationComputeKind(dynamic_scope) ==
    IF dynamic_scope
    THEN Quantum({DynamicQubitAllocation}, Element(Static))
    ELSE Classical

\* Blocks: the aggregate of the statements; the blocks analysed here end without
\* a trailing expression, so their value is unit.
BlockAggregate(block, stmt) == aggregate_runtime_features(block, stmt, Element(Static))

\* `if c { .. }` as a statement: the features of the condition and of the block,
\* and ForwardBranchingOnDynamicValue when the condition is dynamic.
IfComputeKind(condition, block) ==
    LET evaluated == BlockAggregate(BlockAggregate(Classical, condition), block)
    IN  IF ComputeKind_is_dynamic(condition)
        THEN BlockAggregate(evaluated,
                 Quantum({ForwardBranchingOnDynamicValue}, Element(Static)))
        ELSE evaluated

\* An open block: the condition it is entered under (Classical for the body of
\* the operation) and the aggregate of its statements so far.
BlockFrame(condition, compute_kind) == [condition |-> condition, compute_kind |-> compute_kind]

\* The dynamic scope bit: some open block was entered under a dynamic condition.
DynamicScope(blocks) ==
    \E i \in 1..Len(blocks) : ComputeKind_is_dynamic(blocks[i].condition)

\* The walk at the start of a block.
StartWalk(context) ==
    [context |-> context,
     q |-> None, x |-> None,
     operands |-> <<>>,
     blocks |-> IF context = "operation" THEN <<BlockFrame(Classical, Classical)>> ELSE <<>>,
     last |-> None,
     item |-> None,
     step |-> [node |-> "Start", operands |-> <<>>]]

\* A statement has been analysed: a top-level statement gets its generator set,
\* without parameters as no callable encloses it; a statement of a block is
\* aggregated into the block.
AnalyzedStmt(walk, compute_kind) ==
    IF walk.blocks = <<>>
    THEN [walk EXCEPT !.last = Some(ApplicationGeneratorSet(compute_kind, <<>>))]
    ELSE [walk EXCEPT !.blocks[Len(walk.blocks)].compute_kind =
                          BlockAggregate(@, compute_kind)]

Walking == core.context # "none" /\ core.item = None
OpenIfs == IF core.context = "operation" THEN Len(core.blocks) - 1 ELSE Len(core.blocks)
\* An expression can be started: fewer than MaxNesting wait.  The if blocks
\* analysed here hold allocations alone.
CanPush == Walking /\ Len(core.operands) < MaxNesting /\ OpenIfs = 0
Top == core.operands[Len(core.operands)]
Pop(n) == SubSeq(core.operands, 1, Len(core.operands) - n)

\* One node has been analysed: the walk moves on, and keeps the node and the
\* analysed operands it was given.
Analyzed(walk, node, given) ==
    /\ core' = [walk EXCEPT !.step = [node |-> node, operands |-> given]]
    /\ UNCHANGED <<gen_vars, flag_vars, rca_vars, lattice_vars, store_vars>>
\* An expression of n operands has been analysed, and takes their place.
Pushed(n, e, node, given) ==
    Analyzed([core EXCEPT !.operands = Append(Pop(n), e)], node, given)

ExprLit(ty) ==
    /\ CanPush
    /\ Pushed(0, AnalyzedExpr(ty, LitComputeKind, TRUE, FALSE), "Lit", <<>>)

ExprVar(name) ==
    /\ CanPush
    /\ core[name] # None
    /\ Pushed(0, core[name].value, "Var", <<>>)

\* M(q), q being the qubit in scope.
ExprCallMeasurement ==
    /\ CanPush
    /\ core.q = Some(QubitBinding)
    /\ Pushed(0, AnalyzedExpr("Result",
                     IntrinsicCallComputeKind(MeasurementDecl, QubitBinding.compute_kind),
                     FALSE, TRUE),
              "Call", <<>>)

\* F(e), e being the last analysed expression, of type Double.
ExprCallFunction ==
    /\ Walking
    /\ Len(core.operands) >= 1
    /\ Top.ty = "Double"
    /\ Pushed(1, AnalyzedExpr("Double",
                     IntrinsicCallComputeKind(FunctionDecl, Top.compute_kind),
                     Top.classical /\ ~ComputeKind_is_dynamic(Top.compute_kind),
                     TRUE),
              "Call", <<>>)

\* lhs op rhs, on the last two analysed expressions.
ExprBinOp(op) ==
    /\ Walking
    /\ Len(core.operands) >= 2
    /\ LET lhs == core.operands[Len(core.operands) - 1]
           rhs == Top
       IN  /\ lhs.ty = rhs.ty
           /\ BinOpAccepts(op, lhs.ty)
           /\ Pushed(2, AnalyzedExpr(BinOpType(op, lhs.ty),
                            BinOpComputeKind(lhs.ty, lhs.compute_kind, rhs.compute_kind),
                            lhs.classical /\ rhs.classical,
                            TRUE),
                     "BinOp", <<lhs, rhs>>)

\* c ? a | b, c being the last analysed expression and a, b literals.
ExprCond(ty) ==
    /\ Walking
    /\ Len(core.operands) >= 1
    /\ Top.ty = "Bool"
    /\ Pushed(1, AnalyzedExpr(ty, CondComputeKind(ty, Top.compute_kind),
                     Top.classical, TRUE),
              "Cond", <<>>)

\* use q = Qubit(); or use q = Qubit[2];  Inside an if block the qubit is local
\* to the block, which does not read it.
StmtUse(binding) ==
    /\ Walking
    /\ core.operands = <<>>
    /\ Analyzed([AnalyzedStmt(core, AllocationComputeKind(DynamicScope(core.blocks)))
                     EXCEPT !.q = IF OpenIfs = 0 THEN Some(binding) ELSE @],
                "Use", <<>>)

\* let x = e; e being the analysed expression.
StmtLet ==
    /\ Walking
    /\ Len(core.operands) = 1
    /\ Top.ty \in OperandTypes
    /\ Analyzed([AnalyzedStmt(core, Top.compute_kind)
                     EXCEPT !.x = Some([Top EXCEPT !.compound = FALSE]), !.operands = <<>>],
                "Let", <<>>)

\* e or e; the statement of the analysed expression.
StmtExpr ==
    /\ Walking
    /\ Len(core.operands) = 1
    /\ Analyzed([AnalyzedStmt(core, Top.compute_kind) EXCEPT !.operands = <<>>],
                "Expr", <<Top>>)

\* if c {  the condition being the analysed expression; the body of the
\* operation alone holds if blocks, and they are not nested.
IfBegin ==
    /\ Walking
    /\ core.context = "operation"
    /\ OpenIfs = 0
    /\ Len(core.operands) = 1
    /\ Top.ty = "Bool"
    /\ Analyzed([core EXCEPT !.operands = <<>>,
                             !.blocks = Append(@, BlockFrame(Top.compute_kind, Classical))],
                "If", <<>>)

\* }  closes the innermost if block; the if is a statement of the enclosing one.
IfEnd ==
    /\ Walking
    /\ OpenIfs > 0
    /\ core.operands = <<>>
    /\ LET closed == core.blocks[Len(core.blocks)]
           enclosing == [core EXCEPT !.blocks = SubSeq(@, 1, Len(@) - 1)]
       IN  Analyzed(AnalyzedStmt(enclosing,
                        IfComputeKind(closed.condition, closed.compute_kind)),
                    "EndIf", <<>>)

\* The end of the body: the operation gets its body generator set, without
\* parameters, and no other specialization.
OperationEnd ==
    /\ Walking
    /\ core.context = "operation"
    /\ OpenIfs = 0
    /\ core.operands = <<>>
    /\ Analyzed([core EXCEPT !.item =
                     Some(Callable(
                         ApplicationGeneratorSet(core.blocks[1].compute_kind, <<>>),
                         None, None, None))],
                "EndOperation", <<>>)

InitCore ==
    /\ generator_set = ApplicationGeneratorSet(Classical, <<>>)
    /\ args_value_kinds = <<>>
    /\ application = NoApplication
    /\ features = {}
    /\ flags_call = NoFlagsCall
    /\ RcaInit
    /\ LatticeInit
    /\ StoreInit
    /\ core \in { StartWalk(context) : context \in {"fragment", "operation"} }

NextCore ==
    \/ \E ty \in OperandTypes : ExprLit(ty)
    \/ \E name \in {"q", "x"} : ExprVar(name)
    \/ ExprCallMeasurement
    \/ ExprCallFunction
    \/ \E op \in BinOps : ExprBinOp(op)
    \/ \E ty \in {"Bool", "Int"} : ExprCond(ty)
    \/ \E binding \in {QubitBinding, RegisterBinding} : StmtUse(binding)
    \/ StmtLet
    \/ StmtExpr
    \/ IfBegin
    \/ IfEnd
    \/ OperationEnd

SpecCore == InitCore /\ [][NextCore]_vars

(***************************************************************************)
(* C21: an expression built only from classical parts (literals, operators *)
(* over such operands however deep they nest, calls of functions on such   *)
(* arguments) is Classical, and the top-level statement of such an         *)
(* expression has a generator set whose inherent kind is Classical and     *)
(* whose dynamic_param_applications is empty.                              *)
(***************************************************************************)
C21_ClassicalParts ==
    /\ \A i \in 1..Len(core.operands) :
           core.operands[i].classical => core.operands[i].compute_kind.kind = "Classical"
    /\ (/\ core.context = "fragment"
        /\ core.step.node = "Expr"
        /\ core.step.operands[1].classical)
           => /\ core.last.kind = "Some"
              /\ core.last.value.inherent.kind = "Classical"
              /\ core.last.value.dynamic_param_applications = <<>>
\* The statement of an operator or a call of type Double, such as
\* `Sin(PI() / 2.0) ^ 2.0 + Cos(PI() / 2.0) ^ 2.0`, has been analysed.
C21_Witness ==
    /\ core.context = "fragment"
    /\ core.step.node = "Expr"
    /\ core.step.operands[1].classical
    /\ core.step.operands[1].compound
    /\ core.step.operands[1].ty = "Double"
    /\ core.last = Some(ApplicationGeneratorSet(Classical, <<>>))
\* An operator over two literals, such as `1 + 1`, has been analysed.
C21_WitnessLiterals ==
    /\ core.step.node = "BinOp"
    /\ \A i \in {1, 2} : /\ core.step.operands[i].classical
                         /\ ~core.step.operands[i].compound
                         /\ core.step.operands[i].ty = "Int"
    /\ core.operands[Len(core.operands)].compute_kind = Classical
\* An operator over two operands that are operators or calls has been analysed.
C21_WitnessNested ==
    /\ core.step.node = "BinOp"
    /\ \A i \in {1, 2} : /\ core.step.operands[i].classical
                         /\ core.step.operands[i].compound
    /\ core.operands[Len(core.operands)].compute_kind = Classical

\* The call of a function on an operator or a call made of classical parts.
C21_WitnessCall ==
    /\ core.step.node = "Call"
    /\ core.operands[Len(core.operands)].ty = "Double"
    /\ core.operands[Len(core.operands)].classical
    /\ core.operands[Len(core.operands)].compute_kind = Classical

(***************************************************************************)
(* C22: an operator with a dynamic operand, the left one, the right one or *)
(* both, themselves operators or not, is Quantum with value kind           *)
(* Element(Dynamic), and its runtime features are those of its operands    *)
(* and the UseOfDynamic flag of the operand type, and no other.  So the    *)
(* comparison of a measurement result has exactly UseOfDynamicBool, the    *)
(* conjunction of two dynamic booleans that have it has it alone, and      *)
(* arithmetic on an integer chosen by a dynamic condition has exactly      *)
(* UseOfDynamicBool and UseOfDynamicInt.                                   *)
(***************************************************************************)
BinOpLhs == core.step.operands[1]
BinOpRhs == core.step.operands[2]
BinOpResult == core.operands[Len(core.operands)]
IsDynamicOperand(e) ==
    /\ e.compute_kind.kind = "Quantum"
    /\ e.compute_kind.value_kind = Element(Dynamic)
OperandFeatures(e) ==
    IF e.compute_kind.kind = "Quantum" THEN e.compute_kind.runtime_features ELSE {}
C22_DynamicOperand ==
    (core.step.node = "BinOp" /\ (IsDynamicOperand(BinOpLhs) \/ IsDynamicOperand(BinOpRhs)))
        => /\ BinOpResult.compute_kind.kind = "Quantum"
           /\ BinOpResult.compute_kind.value_kind = Element(Dynamic)
           /\ BinOpResult.compute_kind.runtime_features =
                  OperandFeatures(BinOpLhs) \cup OperandFeatures(BinOpRhs) \cup {UseOfDynamic(BinOpLhs.ty)}
           /\ BinOpLhs.ty = "Result"
                  => BinOpResult.compute_kind.runtime_features = {UseOfDynamicBool}
           /\ (/\ BinOpLhs.ty = "Bool"
               /\ \A e \in {BinOpLhs, BinOpRhs} : e.compute_kind = Quantum({UseOfDynamicBool}, Element(Dynamic)))
                  => BinOpResult.compute_kind.runtime_features = {UseOfDynamicBool}
           /\ (BinOpLhs.ty = "Int" /\ BinOpResult.ty = "Int")
                  => BinOpResult.compute_kind.runtime_features = {UseOfDynamicBool, UseOfDynamicInt}
\* `M(q) != Zero`: the left operand alone is dynamic.
C22_Witness ==
    /\ core.step.node = "BinOp"
    /\ BinOpLhs.ty = "Result"
    /\ IsDynamicOperand(BinOpLhs) /\ BinOpLhs.compound
    /\ BinOpRhs.compute_kind = Classical
    /\ BinOpResult.compute_kind = Quantum({UseOfDynamicBool}, Element(Dynamic))
\* `One == M(q)`: the right operand alone is dynamic.
C22_WitnessRight ==
    /\ core.step.node = "BinOp"
    /\ BinOpLhs.ty = "Result"
    /\ BinOpLhs.compute_kind = Classical
    /\ IsDynamicOperand(BinOpRhs) /\ BinOpRhs.compound
    /\ BinOpResult.compute_kind = Quantum({UseOfDynamicBool}, Element(Dynamic))
\* `c and d`, both bound to the comparison of a measurement result.
C22_WitnessBoth ==
    /\ core.step.node = "BinOp"
    /\ BinOpLhs.ty = "Bool"
    /\ IsDynamicOperand(BinOpLhs) /\ ~BinOpLhs.compound
    /\ IsDynamicOperand(BinOpRhs) /\ ~BinOpRhs.compound
    /\ BinOpResult.compute_kind = Quantum({UseOfDynamicBool}, Element(Dynamic))
\* `i * 1 / 1`, i bound to `M(q) == Zero ? 0 | 1`: the outer operator, whose
\* left operand is the inner one.
C22_WitnessNested ==
    /\ core.step.node = "BinOp"
    /\ BinOpLhs.ty = "Int" /\ BinOpResult.ty = "Int"
    /\ IsDynamicOperand(BinOpLhs) /\ BinOpLhs.compound
    /\ BinOpRhs.compute_kind = Classical /\ ~BinOpRhs.compound
    /\ core.x.kind = "Some" /\ core.x.value.ty = "Int"
    /\ IsDynamicOperand(core.x.value)
    /\ BinOpResult.compute_kind =
           Quantum({UseOfDynamicBool, UseOfDynamicInt}, Element(Dynamic))
\* Two dynamic operands with different features.
C22_WitnessUnion ==
    /\ core.step.node = "BinOp"
    /\ IsDynamicOperand(BinOpLhs) /\ IsDynamicOperand(BinOpRhs)
    /\ OperandFeatures(BinOpLhs) # OperandFeatures(BinOpRhs)

(***************************************************************************)
(* C23: a qubit, or a register of literal size, allocated outside any      *)
(* dynamic scope is Quantum with no runtime feature and an all-static      *)
(* value kind, Element(Static) for the qubit and Array(Static, Static) for *)
(* the register, and so is not Classical: as an analysed expression, and   *)
(* as the inherent kind of the top-level statement that reads it, whose    *)
(* generator set has no parameter.                                         *)
(***************************************************************************)
AllocatedTypes == {"Qubit", "Qubit[]"}
StaticQuantum(compute_kind, ty) ==
    /\ compute_kind.kind = "Quantum"
    /\ compute_kind.runtime_features = {}
    /\ IF ty = "Qubit"
       THEN compute_kind.value_kind = [variant |-> "Element", runtime_kind |-> Static]
       ELSE compute_kind.value_kind =
                [variant |-> "Array", content |-> Static, size |-> Static]
C23_WitnessRegister ==
    /\ core.context = "fragment"
    /\ core.step.node = "Expr"
    /\ core.step.operands[1].ty = "Qubit[]"
    /\ core.last.value.inherent.kind = "Quantum"
    /\ core.last.value.inherent.runtime_features = {}
    /\ core.last.value.inherent.value_kind = Array(Static, Static)

(***************************************************************************)
(* C24: in the body of an operation without parameters that returns Unit,  *)
(* a qubit allocation adds DynamicQubitAllocation to its block when the    *)
(* block is entered under a dynamic condition, and adds nothing otherwise; *)
(* an if block entered under a dynamic condition adds                      *)
(* ForwardBranchingOnDynamicValue.  So a body that is Classical up to      *)
(* `if M(c) == One { use target = Qubit(); }` has after it exactly         *)
(* UseOfDynamicBool, ForwardBranchingOnDynamicValue and                    *)
(* DynamicQubitAllocation, with value kind Element(Static); and the        *)
(* operation gets the generator set of its body, without parameter         *)
(* applications, and no adj, ctl or ctl_adj.                               *)
(***************************************************************************)
InnermostBlock(walk) == walk.blocks[Len(walk.blocks)]
BlockFeatures(block) ==
    IF block.compute_kind.kind = "Quantum" THEN block.compute_kind.runtime_features ELSE {}
UnderDynamicCondition(walk) ==
    \E i \in 1..Len(walk.blocks) :
        /\ walk.blocks[i].condition.kind = "Quantum"
        /\ walk.blocks[i].condition.value_kind = Element(Dynamic)
C24_Allocation ==
    (core.context = "operation" /\ core'.step.node = "Use")
        => /\ Len(core'.blocks) = Len(core.blocks)
           /\ BlockFeatures(InnermostBlock(core')) =
                  BlockFeatures(InnermostBlock(core)) \cup
                  (IF UnderDynamicCondition(core) THEN {DynamicQubitAllocation} ELSE {})
C24_Branch ==
    (core.context = "operation" /\ core'.step.node = "EndIf")
        => /\ Len(core'.blocks) = Len(core.blocks) - 1
           /\ BlockFeatures(InnermostBlock(core')) =
                  BlockFeatures(core.blocks[Len(core.blocks) - 1]) \cup
                  BlockFeatures(InnermostBlock(core)) \cup
                  (IF InnermostBlock(core).condition.kind = "Quantum"
                   THEN InnermostBlock(core).condition.runtime_features ELSE {}) \cup
                  (IF UnderDynamicCondition(core)
                   THEN {ForwardBranchingOnDynamicValue} ELSE {})
           /\ (/\ core.blocks[Len(core.blocks) - 1].compute_kind = Classical
               /\ InnermostBlock(core).condition =
                      Quantum({UseOfDynamicBool}, Element(Dynamic))
               /\ BlockFeatures(InnermostBlock(core)) = {DynamicQubitAllocation})
                  => InnermostBlock(core').compute_kind =
                         Quantum({UseOfDynamicBool, ForwardBranchingOnDynamicValue,
                                  DynamicQubitAllocation},
                                 Element(Static))
C24_Operation ==
    (core.context = "operation" /\ core'.step.node = "EndOperation")
        => /\ core'.item.kind = "Some"
           /\ core'.item.value.body.inherent = core.blocks[1].compute_kind
           /\ core'.item.value.body.dynamic_param_applications = <<>>
           /\ core'.item.value.adj = None
           /\ core'.item.value.ctl = None
           /\ core'.item.value.ctl_adj = None
\* The body of an operation is Classical, or Quantum with a static element.
C24_UnitBody ==
    core.context = "operation"
        => \A i \in 1..Len(core.blocks) :
               core.blocks[i].compute_kind.kind = "Quantum"
                   => core.blocks[i].compute_kind.value_kind = Element(Static)
C24_DynamicQubitAllocation ==
    [](C24_UnitBody) /\ [][C24_Allocation /\ C24_Branch /\ C24_Operation]_vars
\* The operation of `use control = Qubit(); if M(control) == One { use target =
\* Qubit(); }` has been analysed.
C24_Witness ==
    /\ core.context = "operation"
    /\ core.step.node = "EndOperation"
    /\ core.x = None
    /\ core.item =
           Some(Callable(
               ApplicationGeneratorSet(
                   Quantum({UseOfDynamicBool, ForwardBranchingOnDynamicValue,
                            DynamicQubitAllocation},
                           Element(Static)),
                   <<>>),
               None, None, None))
\* A qubit has been allocated inside the block of a dynamic condition.
C24_WitnessInside ==
    /\ core.context = "operation"
    /\ core.step.node = "Use"
    /\ Len(core.blocks) = 2
    /\ core.blocks[2].condition = Quantum({UseOfDynamicBool}, Element(Dynamic))
    /\ core.blocks[2].compute_kind = Quantum({DynamicQubitAllocation}, Element(Static))
\* A qubit has been allocated after the block of a dynamic condition closed
\* without an allocation: the body has no DynamicQubitAllocation.
C24_WitnessOutside ==
    /\ core.context = "operation"
    /\ core.step.node = "Use"
    /\ Len(core.blocks) = 1
    /\ core.blocks[1].compute_kind =
           Quantum({UseOfDynamicBool, ForwardBranchingOnDynamicValue}, Element(Static))
\* A qubit has been allocated inside the block of a classical condition.
C24_WitnessClassicalCondition ==
    /\ core.context = "operation"
    /\ core.step.node = "Use"
    /\ Len(core.blocks) = 2
    /\ core.blocks[2].condition = Classical
    /\ core.blocks[2].compute_kind = Classical

====
